---- MODULE Spec2Model ----
(***************************************************************************)
(* craft-grammar: the statement / processor evaluation engine.             *)
(*                                                                         *)
(* Text (clause keys, string sections, architecture and platform names) is *)
(* a sequence of lexemes: the keywords "on", "to", "for", "try", "else",   *)
(* "fail", the whitespace lexeme " ", the comma "," and one-lexeme names.  *)
(* A grammar is a sequence of sections; a statement is a record holding    *)
(* the fields of the Python object.  GrammarProcessor.process and          *)
(* Statement.process are mutually recursive operators that thread the      *)
(* processor's mutable state (the variant) and the shared call-stack list  *)
(* through the evaluation, in the order the code runs.                     *)
(***************************************************************************)
EXTENDS Integers, Sequences, FiniteSets, TLC

VARIABLES construction, arch, target_arch, platforms, transformer, variant,
          todo, calls, result, stmt, sresult, scalls

vars == <<construction, arch, target_arch, platforms, transformer, variant,
          todo, calls, result, stmt, sresult, scalls>>

\* the element of a one-element set.  Only({ e(x) : x \in {v} }) computes v
\* once and names it x in e, as a local variable does
Only(S) == CHOOSE x \in S : TRUE

-----------------------------------------------------------------------------
(* Text and regular expressions                                            *)

\* a text is a sequence of lexemes: a word (one or more characters that are
\* neither whitespace nor a comma), a comma, a newline, or another
\* whitespace character
WS == " "
NL == "\n"
COMMA == ","

\* \s
IsSpace(c) == c \in {WS, NL}
\* . (compiled without DOTALL): anything but a newline
IsDot(c) == c # NL

\* first index >= i of s that does not hold whitespace (Len(s)+1 if none): \s*
RECURSIVE SkipWS(_, _)
SkipWS(s, i) ==
    IF i > Len(s) THEN i
    ELSE IF IsSpace(s[i]) THEN SkipWS(s, i + 1) ELSE i

\* first index >= i of s that holds whitespace (Len(s)+1 if none): \S*
RECURSIVE SkipNonWS(_, _)
SkipNonWS(s, i) ==
    IF i > Len(s) THEN i
    ELSE IF IsSpace(s[i]) THEN i ELSE SkipNonWS(s, i + 1)

\* _WHITESPACE_PATTERN \A.*\s.*\Z: a whitespace with no newline before or
\* after it
HasSpace(s) ==
    \E i \in 1..Len(s) :
        /\ IsSpace(s[i])
        /\ \A k \in (1..Len(s)) \ {i} : IsDot(s[k])
\* _COMMA_PATTERN \A.*,.*\Z
HasComma(s) ==
    \E i \in 1..Len(s) :
        /\ s[i] = COMMA
        /\ \A k \in (1..Len(s)) \ {i} : IsDot(s[k])

\* str.strip()
RECURSIVE Strip(_)
Strip(s) ==
    IF s = <<>> THEN s
    ELSE IF IsSpace(s[1]) THEN Strip(Tail(s))
    ELSE IF IsSpace(s[Len(s)]) THEN Strip(SubSeq(s, 1, Len(s) - 1))
    ELSE s

\* \A<kw>\s+  (re.match: anchored at the start only)
StartsKw(key, kw) == Len(key) >= 2 /\ key[1] = kw /\ IsSpace(key[2])

_ON_CLAUSE_PATTERN(key) == StartsKw(key, "on")
_TO_CLAUSE_PATTERN(key) == StartsKw(key, "to")
_FOR_CLAUSE_PATTERN(key) == StartsKw(key, "for")
_TRY_CLAUSE_PATTERN(key) == key = <<"try">>
_ELSE_CLAUSE_PATTERN(key) == key = <<"else">>

\* \Aelse\s+fail\Z
_ELSE_FAIL_PATTERN(s) ==
    /\ StartsKw(s, "else")
    /\ SkipWS(s, 2) = Len(s)
    /\ s[Len(s)] = "fail"

\* (\Aon\s+\S+)\s+(to\s+\S+\Z): the positions of the four words, or a
\* record with ok = FALSE when the key does not match
OnToSplit(key) ==
    IF ~StartsKw(key, "on") THEN [ok |-> FALSE, aEnd |-> 0, t |-> 0]
    ELSE LET a    == SkipWS(key, 2)
             aEnd == SkipNonWS(key, a)
             t    == SkipWS(key, aEnd)
             b    == SkipWS(key, t + 1)
         IN  IF /\ a <= Len(key) /\ aEnd > a
                /\ t > aEnd /\ t + 1 <= Len(key)
                /\ key[t] = "to" /\ IsSpace(key[t + 1])
                /\ b <= Len(key) /\ SkipNonWS(key, b) = Len(key) + 1
             THEN [ok |-> TRUE, aEnd |-> aEnd, t |-> t]
             ELSE [ok |-> FALSE, aEnd |-> 0, t |-> 0]

_ON_TO_CLAUSE_PATTERN(key) == OnToSplit(key).ok
OnGroup(key) == SubSeq(key, 1, OnToSplit(key).aEnd - 1)
ToGroup(key) == SubSeq(key, OnToSplit(key).t, Len(key))

\* str.split(","): the maximal comma-free runs of g, as a set (g neither
\* starts nor ends with a comma and holds no two commas in a row)
SplitComma(g) ==
    { SubSeq(g, i, j) : <<i, j>> \in
        { p \in (1..Len(g)) \X (1..Len(g)) :
            /\ p[1] <= p[2]
            /\ \A k \in p[1]..p[2] : g[k] # COMMA
            /\ (p[1] = 1 \/ g[p[1] - 1] = COMMA)
            /\ (p[2] = Len(g) \/ g[p[2] + 1] = COMMA) } }

\* \A<kw>\s+([^,\s](?:,?[^,]+)*)\Z, the whitespace test and the split of
\* _extract_on_clause_selectors / _extract_to_clause_selectors
ExtractClauseSelectors(s, kw) ==
    LET g0 == SkipWS(s, 2)
        G  == SubSeq(s, g0, Len(s))
        matches ==
            /\ StartsKw(s, kw)
            /\ g0 <= Len(s)
            /\ G[1] # COMMA
            /\ G[Len(G)] # COMMA
            /\ \A i \in 1..(Len(G) - 1) : ~(G[i] = COMMA /\ G[i + 1] = COMMA)
    IN  IF ~matches THEN [ok |-> FALSE, selectors |-> {}]
        ELSE IF HasSpace(G) THEN [ok |-> FALSE, selectors |-> {}]
        ELSE [ok |-> TRUE, selectors |-> { Strip(t) : t \in SplitComma(G) }]

_extract_on_clause_selectors(s) == ExtractClauseSelectors(s, "on")
_extract_to_clause_selectors(s) == ExtractClauseSelectors(s, "to")

\* \Afor\s+(.+)\Z, then the whitespace and the comma tests
_extract_for_clause_selectors(s) ==
    LET g0 == SkipWS(s, 2)
        \* \s+ is greedy and gives one whitespace back when nothing follows
        G  == IF g0 <= Len(s) THEN SubSeq(s, g0, Len(s))
              ELSE SubSeq(s, Len(s), Len(s))
        matches ==
            /\ StartsKw(s, "for") /\ (g0 <= Len(s) \/ Len(s) >= 3)
            /\ \A k \in 1..Len(G) : IsDot(G[k])
    IN  IF ~matches THEN [ok |-> FALSE, selectors |-> {}]
        ELSE IF HasSpace(G) THEN [ok |-> FALSE, selectors |-> {}]
        ELSE IF HasComma(G) THEN [ok |-> FALSE, selectors |-> {}]
        ELSE [ok |-> TRUE, selectors |-> {G}]

-----------------------------------------------------------------------------
(* Sections, values and primitives                                         *)

\* a string section
Str(s) == [t |-> "str", s |-> s, items |-> <<>>]
\* a mapping section: items is the key-ordered sequence of its entries
Dict(items) == [t |-> "dict", s |-> <<>>, items |-> items]
\* a number, boolean or list section
Num(s) == [t |-> "num", s |-> s, items |-> <<>>]

\* a mapping entry; v holds the items of a list value (l) or, for a value
\* that is no list, that one value
Entry(key, isList, v) == [key |-> key, l |-> isList, v |-> v]

\* what process() appends: the section, the call stack the transformer was
\* handed (strings only) and whether the transformer produced it
Prim(sec, cs, tr) == [sec |-> sec, cs |-> cs, tr |-> tr]

\* the transformer hook: (call_stack, primitive, target_arch) -> primitive.
\* The one modelled returns the primitive together with the call stack it saw.
_transformer(call_stack, section, tarch) == Prim(section, call_stack, TRUE)

\* the hook of a processor built without one: `lambda _s, p, _o: p`
DefaultTransformer(call_stack, section, tarch) == Prim(section, <<>>, FALSE)

\* the checker hook: a primitive is invalid iff it is the string "q"
checker(primitive) ==
    ~("t" \in DOMAIN primitive.sec /\ primitive.sec.t = "str"
        /\ primitive.sec.s = <<"q">>)

-----------------------------------------------------------------------------
(* Variant, errors, the threaded processor state                           *)

UNKNOWN == "unknown"
TO_VARIANT == "'to' variant"
FOR_VARIANT == "'for' variant"

NoError == "none"

\* w: the mutable state a call can change and the record of what it did
\*   variant : GrammarProcessor._variant
\*   err     : the exception propagating (NoError when none)
\*   nid     : number of statements constructed so far (object identity)
\*   vtrace  : each _set_variant call: the variant asked for, the value of
\*             _variant after the call and whether the call raised
\*   log     : check / body / else evaluations and finalizations, in order
World(v) == [variant |-> v, err |-> NoError, nid |-> 0, vtrace |-> <<>>,
             log |-> <<>>]

Raise(w, e) == [w EXCEPT !.err = e]
Event(w, e, id, n) == [w EXCEPT !.log = Append(@, [e |-> e, id |-> id, n |-> n])]

\* a variant that follows the last dialect observed
SetVariantFollows(w, v) ==
    [w EXCEPT !.variant = v,
              !.vtrace = Append(@, [req |-> v, got |-> v, err |-> w.err])]

\* a variant that latches but never raises
SetVariantSilent(w, v) ==
    LET w1 == IF w.variant = UNKNOWN THEN [w EXCEPT !.variant = v] ELSE w
    IN  [w1 EXCEPT !.vtrace = Append(@, [req |-> v, got |-> w1.variant,
                                         err |-> w1.err])]

\* a variant that is never set
SetVariantNeverLatches(w, v) ==
    [w EXCEPT !.vtrace = Append(@, [req |-> v, got |-> w.variant,
                                    err |-> w.err])]

\* a variant that, once an earlier call has set it, makes the first clause
\* of a later call raise
SetVariantOnce(w, v) ==
    LET w1 == IF w.variant = UNKNOWN /\ w.vtrace = <<>>
              THEN [w EXCEPT !.variant = v]
              ELSE IF w.variant # v \/ w.vtrace = <<>> THEN Raise(w, "conflict")
              ELSE w
    IN  [w1 EXCEPT !.vtrace = Append(@, [req |-> v, got |-> w1.variant,
                                         err |-> w1.err])]

\* GrammarProcessor._set_variant
_set_variant(w, v) ==
    LET w1 == IF w.variant = UNKNOWN THEN [w EXCEPT !.variant = v]
              ELSE IF w.variant # v THEN Raise(w, "conflict")
              ELSE w
    IN  [w1 EXCEPT !.vtrace = Append(@, [req |-> v, got |-> w1.variant,
                                         err |-> w1.err])]

-----------------------------------------------------------------------------
(* Statements                                                              *)

Unset == [set |-> FALSE, val |-> <<>>]
Cached(v) == [set |-> TRUE, val |-> v]

\* Statement.__init__ and the subclasses' __init__ (selectors already
\* extracted).  A non-empty call stack is shared with the caller (the same
\* list object); an empty one is replaced by a list of the statement's own.
Statement(id, kind, sel, tosel, body, call_stack) ==
    [id |-> id, kind |-> kind, selectors |-> sel, to_selectors |-> tosel,
     body |-> body, else_bodies |-> <<>>,
     check_primitives |-> (kind = "try"),
     shared |-> (call_stack # <<>>), own |-> <<>>,
     processed_body |-> Unset, processed_else |-> Unset]

\* an else body: the `else fail` marker (None) or a grammar
ElseFail == [fail |-> TRUE, body |-> <<>>]
ElseBody(b) == [fail |-> FALSE, body |-> b]

\* an else chain that takes every entry for a grammar
EveryElseIsBody(else_body) == FALSE

\* `if not else_body:` -- None and the empty list are both falsy
NotElseBody(else_body) == else_body.fail \/ else_body.body = <<>>

\* an add_else that every statement class accepts
AddElseToAny(S, else_body) ==
    [ok |-> TRUE, S |-> [S EXCEPT !.else_bodies = Append(@, else_body)]]

\* Statement.add_else / ForStatement.add_else
add_else(S, else_body) ==
    IF S.kind = "for" THEN [ok |-> FALSE, S |-> S]
    ELSE [ok |-> TRUE, S |-> [S EXCEPT !.else_bodies = Append(@, else_body)]]

\* a check that matches any of the selectors
OnCheckAnySelector(sel, a) == a \in sel

\* OnStatement.check
OnCheck(sel, a) == Cardinality(sel) = 1 /\ a \in sel
\* ToStatement.check
ToCheck(sel, ta) == Cardinality(sel) = 1 /\ ta \in sel
\* a check that takes a missing platform set for one that matches
ForCheckNoneMatches(sel, pf) ==
    ~pf.set \/ (Cardinality(sel) = 1 /\ sel \subseteq pf.val)

\* ForStatement.check
ForCheck(sel, pf) == pf.set /\ Cardinality(sel) = 1 /\ sel \subseteq pf.val
\* a compound that matches when either part does
CompoundCheckEither(S, ctx) ==
    OnCheck(S.selectors, ctx.arch) \/ ToCheck(S.to_selectors, ctx.target_arch)

\* CompoundStatement.check
CompoundCheck(S, ctx) ==
    OnCheck(S.selectors, ctx.arch) /\ ToCheck(S.to_selectors, ctx.target_arch)

\* an equality that looks at the class of the statements only
StatementEqKind(S, T) == S.kind # "try" /\ S.kind = T.kind

\* __eq__ of the statement classes
StatementEq(S, T) ==
    CASE S.kind = "try" -> FALSE
      [] S.kind = "compound" ->
            /\ T.kind = "compound"
            /\ S.selectors = T.selectors
            /\ S.to_selectors = T.to_selectors
      [] OTHER -> T.kind = S.kind /\ S.selectors = T.selectors

\* a validation that takes the empty list for invalid
ValidateNonEmpty(primitives) ==
    primitives # <<>> /\ \A i \in 1..Len(primitives) : checker(primitives[i])

\* Statement._validate_primitives
_validate_primitives(primitives) ==
    \A i \in 1..Len(primitives) : checker(primitives[i])

\* what a call-stack entry shows of a statement
Frame(S) == [id |-> S.id, kind |-> S.kind]

\* the list object behind S.__call_stack, given the caller's list cs
StackOf(S, cs) == IF S.shared THEN cs ELSE S.own

-----------------------------------------------------------------------------
(* Statement.process and GrammarProcessor.process                          *)

\* the outcome of a call on a statement: the state, the statement object
\* after the call, the caller's call-stack list after the call, the value
Ret(w, S, cs, out) == [w |-> w, S |-> S, cs |-> cs, out |-> out]

\* the statement and the caller's list after S's list became `stack`
WithStack(S, stack) == IF S.shared THEN S ELSE [S EXCEPT !.own = stack]
CallerStack(S, cs, stack) == IF S.shared THEN stack ELSE cs

\* _StatementCollection.add: `statement in self._statements`
InCollection(statements, S) ==
    \E i \in 1..Len(statements) :
        statements[i].id = S.id \/ StatementEq(statements[i], S)

\* _finalize
_finalize(statement, finalized_statement) ==
    IF statement = <<>> THEN finalized_statement ELSE statement

\* _handle_else: the open statement after the else was added, or the error
_handle_else(statement, else_body) ==
    IF statement = <<>> THEN [err |-> "else_orphan", statement |-> statement]
    ELSE LET r == add_else(statement[1], else_body)
         IN  IF r.ok THEN [err |-> NoError, statement |-> <<r.S>>]
             ELSE [err |-> "else_for", statement |-> statement]

\* a value that is no list taken for the empty body
WrapValueListsOnly(entry) == IF entry.l THEN entry.v ELSE <<>>

\* `if not isinstance(value, list): value = [value]`
WrapValue(entry) == IF entry.l THEN entry.v ELSE <<entry.v[1]>>

\* the keyword class of a mapping key, in the order of the if / elif chain
KeyClass(key) ==
    IF _ON_TO_CLAUSE_PATTERN(key) THEN "compound"
    ELSE IF _ON_CLAUSE_PATTERN(key) THEN "on"
    ELSE IF _FOR_CLAUSE_PATTERN(key) THEN "for"
    ELSE IF _TO_CLAUSE_PATTERN(key) THEN "to"
    ELSE IF _TRY_CLAUSE_PATTERN(key) THEN "try"
    ELSE IF _ELSE_CLAUSE_PATTERN(key) THEN "else"
    ELSE "other"

\* the statement constructors as the processor calls them: the selectors
\* are extracted from the clause text, which may raise
NewStatement(kind, key, body, call_stack, w) ==
    LET id  == w.nid + 1
        on  == _extract_on_clause_selectors(IF kind = "compound" THEN OnGroup(key) ELSE key)
        to  == _extract_to_clause_selectors(IF kind = "compound" THEN ToGroup(key) ELSE key)
        for == _extract_for_clause_selectors(key)
        w1  == [w EXCEPT !.nid = id]
        mk(sel, tosel) == <<Statement(id, kind, sel, tosel, body, call_stack)>>
    IN  CASE kind = "compound" ->
               IF ~on.ok THEN [w |-> Raise(w, "on_syntax"), statement |-> <<>>]
               ELSE IF ~to.ok THEN [w |-> Raise(w, "to_syntax"), statement |-> <<>>]
               ELSE [w |-> w1, statement |-> mk(on.selectors, to.selectors)]
          [] kind = "on" ->
               IF ~on.ok THEN [w |-> Raise(w, "on_syntax"), statement |-> <<>>]
               ELSE [w |-> w1, statement |-> mk(on.selectors, {})]
          [] kind = "to" ->
               IF ~to.ok THEN [w |-> Raise(w, "to_syntax"), statement |-> <<>>]
               ELSE [w |-> w1, statement |-> mk(to.selectors, {})]
          [] kind = "for" ->
               IF ~for.ok THEN [w |-> Raise(w, "for_syntax"), statement |-> <<>>]
               ELSE [w |-> w1, statement |-> mk(for.selectors, {})]
          [] OTHER -> [w |-> w1, statement |-> mk({}, {})]

\* the body of the loop over section.items() of _parse_section_dictionary
RECURSIVE ParseEntries(_, _, _, _, _, _)
ParseEntries(items, i, statement, finalized_statement, call_stack, w) ==
    IF i > Len(items)
    THEN [w |-> w, statement |-> statement, finalized |-> finalized_statement]
    ELSE
    LET key   == items[i].key
        value == WrapValue(items[i])
        kind  == KeyClass(key)
        w1    == CASE kind = "other" -> w
                   [] kind = "for" -> _set_variant(w, FOR_VARIANT)
                   [] OTHER -> _set_variant(w, TO_VARIANT)
        fin   == _finalize(statement, finalized_statement)
        stop(wx) == [w |-> wx, statement |-> statement,
                     finalized |-> finalized_statement]
    IN  IF w1.err # NoError THEN stop(w1)
        ELSE CASE kind = "else" ->
                    LET h == _handle_else(statement, ElseBody(value))
                    IN  IF h.err # NoError THEN stop(Raise(w1, h.err))
                        ELSE ParseEntries(items, i + 1, h.statement,
                                          finalized_statement, call_stack, w1)
               [] kind = "other" ->
                    ParseEntries(items, i + 1, <<>>, fin, call_stack, w1)
               [] OTHER ->
                    Only({ IF n.w.err # NoError
                           THEN [w |-> n.w, statement |-> statement,
                                 finalized |-> fin]
                           ELSE ParseEntries(items, i + 1, n.statement, fin,
                                             call_stack, n.w) :
                           n \in {NewStatement(kind, key, value, call_stack, w1)} })

\* GrammarProcessor._parse_section_dictionary
_parse_section_dictionary(section, statement, call_stack, w) ==
    ParseEntries(section.items, 1, statement, <<>>, call_stack, w)

RECURSIVE process(_, _, _, _)
RECURSIVE StatementProcess(_, _, _, _)
RECURSIVE ElseLoop(_, _, _, _, _)
RECURSIVE Scan(_, _, _, _)

\* Statement._process_body
_process_body(S, cs, w, ctx) ==
    IF S.processed_body.set THEN Ret(w, S, cs, S.processed_body.val)
    ELSE Only({
        LET S1  == WithStack(S, r.cs)
            cs1 == CallerStack(S, cs, r.cs)
        IN  IF r.w.err # NoError THEN Ret(r.w, S1, cs1, <<>>)
            ELSE Ret(r.w, [S1 EXCEPT !.processed_body = Cached(r.out)],
                     cs1, r.out) :
        r \in {process(S.body, Append(StackOf(S, cs), Frame(S)),
                       Event(w, "body", S.id, 0), ctx)} })

\* the loop of Statement._process_else, from the i-th else body on
ElseLoop(S, i, cs, w, ctx) ==
    IF i > Len(S.else_bodies) THEN Ret(w, S, cs, S.processed_else.val)
    ELSE IF NotElseBody(S.else_bodies[i])
    THEN Ret(Raise(w, "unsatisfied"), S, cs, <<>>)
    ELSE Only({
        LET S1  == WithStack(S, r.cs)
            cs1 == CallerStack(S, cs, r.cs)
            S2  == [S1 EXCEPT !.processed_else = Cached(r.out)]
        IN  IF r.w.err # NoError THEN Ret(r.w, S1, cs1, <<>>)
            ELSE IF r.out # <<>>
            THEN IF ~S.check_primitives \/ _validate_primitives(r.out)
                 THEN Ret(r.w, S2, cs1, r.out)
                 ELSE ElseLoop(S2, i + 1, cs1, r.w, ctx)
            ELSE ElseLoop(S1, i + 1, cs1, r.w, ctx) :
        r \in {process(S.else_bodies[i].body, StackOf(S, cs),
                       Event(w, "else", S.id, i), ctx)} })

\* an else chain that is evaluated on every call
ProcessElseUncached(S, cs, w, ctx) ==
    ElseLoop([S EXCEPT !.processed_else = Cached(<<>>)], 1, cs, w, ctx)

\* Statement._process_else
_process_else(S, cs, w, ctx) ==
    IF S.processed_else.set THEN Ret(w, S, cs, S.processed_else.val)
    ELSE ElseLoop([S EXCEPT !.processed_else = Cached(<<>>)], 1, cs, w, ctx)

\* a try whose check catches what its body raises and reports a body that
\* does not hold
CheckCatches(S, cs, w, ctx) ==
    LET w1 == Event(w, "check", S.id, 0)
        holds(b) == [w |-> w1, S |-> S, cs |-> cs, holds |-> b]
    IN  CASE S.kind = "on" -> holds(OnCheck(S.selectors, ctx.arch))
          [] S.kind = "to" -> holds(ToCheck(S.selectors, ctx.target_arch))
          [] S.kind = "for" -> holds(ForCheck(S.selectors, ctx.platforms))
          [] S.kind = "compound" -> holds(CompoundCheck(S, ctx))
          [] OTHER ->
               Only({ [w |-> [r.w EXCEPT !.err = NoError], S |-> r.S, cs |-> r.cs,
                       holds |-> r.w.err = NoError /\ _validate_primitives(r.out)] :
                      r \in {_process_body(S, cs, w1, ctx)} })

\* check() of the statement classes; TryStatement.check evaluates the body
check(S, cs, w, ctx) ==
    LET w1 == Event(w, "check", S.id, 0)
        holds(b) == [w |-> w1, S |-> S, cs |-> cs, holds |-> b]
    IN  CASE S.kind = "on" -> holds(OnCheck(S.selectors, ctx.arch))
          [] S.kind = "to" -> holds(ToCheck(S.selectors, ctx.target_arch))
          [] S.kind = "for" -> holds(ForCheck(S.selectors, ctx.platforms))
          [] S.kind = "compound" -> holds(CompoundCheck(S, ctx))
          [] OTHER ->
               Only({ [w |-> r.w, S |-> r.S, cs |-> r.cs,
                       holds |-> r.w.err = NoError /\ _validate_primitives(r.out)] :
                      r \in {_process_body(S, cs, w1, ctx)} })

\* a statement that evaluates its body before it looks at its check
StatementProcessEager(S, cs, w, ctx) ==
    Only({ IF c.w.err # NoError THEN Ret(c.w, c.S, c.cs, <<>>)
           ELSE Only({ IF b.w.err # NoError \/ c.holds THEN b
                       ELSE _process_else(b.S, b.cs, b.w, ctx) :
                       b \in {_process_body(c.S, c.cs, c.w, ctx)} }) :
           c \in {check(S, cs, w, ctx)} })

\* Statement.process
StatementProcess(S, cs, w, ctx) ==
    Only({ IF c.w.err # NoError THEN Ret(c.w, c.S, c.cs, <<>>)
           ELSE IF c.holds THEN _process_body(c.S, c.cs, c.w, ctx)
           ELSE _process_else(c.S, c.cs, c.w, ctx) :
           c \in {check(S, cs, w, ctx)} })

\* a finalization that hands the results of the statement to the transformer
ProcessStatementTransforms(st, statement, ctx) ==
    IF statement = <<>> THEN st
    ELSE IF InCollection(st.statements, statement[1])
    THEN [st EXCEPT !.w = Raise(@, "duplicate")]
    ELSE Only({
        [st EXCEPT !.w = r.w,
                   !.statements = Append(@, statement[1]),
                   !.cs = r.cs,
                   !.primitives =
                       IF r.w.err = NoError
                       THEN @ \o [i \in 1..Len(r.out) |->
                                    _transformer(st.cs, r.out[i], ctx.target_arch)]
                       ELSE @] :
        r \in {StatementProcess(statement[1], st.cs,
                                Event(st.w, "final", statement[1].id, 0), ctx)} })

\* GrammarProcessor._process_statement, on the state of one scan:
\* st = [w, primitives, statements, statement (the open one), cs]
_process_statement(st, statement, ctx) ==
    IF statement = <<>> THEN st
    ELSE IF InCollection(st.statements, statement[1])
    THEN [st EXCEPT !.w = Raise(@, "duplicate")]
    ELSE Only({
        [st EXCEPT !.w = r.w,
                   !.statements = Append(@, statement[1]),
                   !.cs = r.cs,
                   !.primitives = IF r.w.err = NoError THEN @ \o r.out ELSE @] :
        r \in {StatementProcess(statement[1], st.cs,
                                Event(st.w, "final", statement[1].id, 0), ctx)} })

\* one iteration of the loop over the sections of process()
Section(section, st, ctx) ==
    CASE section.t = "str" ->
           IF _ELSE_FAIL_PATTERN(section.s)
           THEN LET w1 == _set_variant(st.w, TO_VARIANT)
                    h  == _handle_else(st.statement, ElseFail)
                IN  IF w1.err # NoError THEN [st EXCEPT !.w = w1]
                    ELSE IF h.err # NoError THEN [st EXCEPT !.w = Raise(w1, h.err)]
                    ELSE [st EXCEPT !.w = w1, !.statement = h.statement]
           ELSE Only({
                IF st1.w.err # NoError THEN st1
                ELSE [st1 EXCEPT
                        !.statement = <<>>,
                        !.primitives =
                            Append(@, IF ctx.transformer
                                      THEN _transformer(st1.cs, section,
                                                        ctx.target_arch)
                                      ELSE DefaultTransformer(st1.cs, section,
                                                        ctx.target_arch))] :
                st1 \in {_process_statement(st, st.statement, ctx)} })
      [] section.t = "dict" ->
           Only({
             IF r.w.err # NoError THEN [st EXCEPT !.w = r.w]
             ELSE Only({
                IF st1.w.err # NoError THEN st1
                ELSE IF r.statement = <<>>
                THEN [st1 EXCEPT !.primitives =
                                    Append(@, Prim(section, <<>>, FALSE))]
                ELSE st1 :
                st1 \in {_process_statement(
                            [st EXCEPT !.w = r.w, !.statement = r.statement],
                            r.finalized, ctx)} }) :
             r \in {_parse_section_dictionary(section, st.statement, st.cs, st.w)} })
      [] section.t = "num" ->
           [st EXCEPT !.primitives = Append(@, Prim(section, <<>>, FALSE))]
      [] OTHER -> [st EXCEPT !.w = Raise(@, "bad_section")]

\* the loop over the sections, from the i-th on; an exception ends it
Scan(grammar, i, st, ctx) ==
    IF i > Len(grammar) THEN st
    ELSE Only({ IF st1.w.err # NoError THEN st1
                ELSE Scan(grammar, i + 1, st1, ctx) :
                st1 \in {Section(grammar[i], st, ctx)} })

\* GrammarProcessor.process on a list of sections
process(grammar, call_stack, w, ctx) ==
    Only({ [w |-> st2.w,
            out |-> IF st2.w.err # NoError THEN <<>> ELSE st2.primitives,
            cs |-> st2.cs] :
           st2 \in { Only({ IF st1.w.err # NoError THEN st1
                            ELSE _process_statement(st1, st1.statement, ctx) :
                            st1 \in {Scan(grammar, 1,
                                          [w |-> w, primitives |-> <<>>,
                                           statements |-> <<>>,
                                           statement |-> <<>>,
                                           cs |-> call_stack], ctx)} }) } })

-----------------------------------------------------------------------------
(* The processor and the two ways it is driven                             *)

\* BaseProcessor.__init__ keeping the collection exactly as it was given
BaseProcessorInitAsGiven(platformsArg) ==
    IF platformsArg.set /\ platformsArg.val # {} /\ <<"any">> \in platformsArg.val
    THEN [ok |-> FALSE, platforms |-> [set |-> FALSE, val |-> {}]]
    ELSE [ok |-> TRUE, platforms |-> platformsArg]

\* BaseProcessor.__init__: the platform set of the context, or the error.
\* The argument is None (set = FALSE) or a collection of platform names.
BaseProcessorInit(platformsArg) ==
    IF platformsArg.set /\ platformsArg.val # {} /\ <<"any">> \in platformsArg.val
    THEN [ok |-> FALSE, platforms |-> [set |-> FALSE, val |-> {}]]
    ELSE [ok |-> TRUE,
          platforms |-> IF ~platformsArg.set THEN [set |-> FALSE, val |-> {}]
                        ELSE [set |-> TRUE, val |-> {<<"any">>} \cup platformsArg.val]]

\* the evaluation context of the processor
Context ==
    [arch |-> arch, target_arch |-> target_arch, platforms |-> platforms,
     transformer |-> transformer]

\* a grammar handed to process(): a list of sections or a top-level mapping
GrammarList(sections) == [dict |-> FALSE, v |-> sections]
GrammarDict(items) == [dict |-> TRUE, v |-> items]

\* a top-level mapping taken for one section
GrammarAsOneSection(grammar) ==
    IF grammar.dict THEN <<Dict(grammar.v)>> ELSE grammar.v

\* `grammar = [{key: value} for key, value in grammar.items()]`
GrammarAsList(grammar) ==
    IF grammar.dict THEN [i \in 1..Len(grammar.v) |-> Dict(<<grammar.v[i]>>)]
    ELSE grammar.v

\* what the caller of process() gets, and what the call did; `again` tells
\* that the grammar is the one the call before was given
Outcome(r, grammar, before) ==
    [err |-> r.w.err, out |-> r.out, grammar |-> grammar, before |-> before,
     again |-> (calls >= 1 /\ grammar = result.grammar),
     vtrace |-> r.w.vtrace, log |-> r.w.log, nid |-> r.w.nid]

NoOutcome ==
    [err |-> "nocall", out |-> <<>>, grammar |-> GrammarList(<<>>),
     before |-> UNKNOWN, again |-> FALSE, vtrace |-> <<>>, log |-> <<>>,
     nid |-> 0]


\* what the caller of the statement API got from the calls so far
\*   err  : the exception of the last call (NoError when it returned)
\*   op   : the last call ("new", "add_else", "process")
\*   kind, text : the class and the clause text the constructor was given
\*   outs : the outcome of each process() call on the statement, in order
\*   nid  : number of statements constructed so far
NoSOutcome ==
    [err |-> "nocall", op |-> "none", kind |-> "none", text |-> <<>>,
     outs |-> <<>>, nid |-> 0]

-----------------------------------------------------------------------------
(* Bounds and inputs                                                       *)

\* longest list of sibling sections handed to process()
MaxLen == 3
\* most else clauses added to a statement built through the statement API
MaxElse == 3
\* most process() calls on one statement object
MaxStmtCalls == 2
\* most process() calls on one processor
MaxCalls == 2

Name(x) == <<x>>
Kw(kw, rest) == <<kw, WS>> \o rest
List2(x, y) == x \o <<COMMA>> \o y
OnTo(x, y) == Kw("on", x) \o <<WS>> \o Kw("to", y)

ArchA == Name("a")
ArchB == Name("b")
ArchC == Name("c")
PlatX == Name("x")
PlatY == Name("y")
PrimP == Str(Name("p"))
PrimQ == Str(Name("q"))
PrimR == Str(Name("r"))
ElseKey == Name("else")
TryKey == Name("try")
ElseFailStr == Str(Kw("else", Name("fail")))

\* a one-key mapping section whose value is a list
Clause(key, body) == Dict(<<Entry(key, TRUE, body)>>)
\* a one-key mapping section whose value is no list
ClauseScalar(key, v) == Dict(<<Entry(key, FALSE, <<v>>)>>)
\* a mapping without clause keys
Plain == ClauseScalar(Name("k"), PrimR)

\* all sequences over S of length 0..n
SeqsUpTo(S, n) == UNION { [1..k -> S] : k \in 0..n }

Archs == {ArchA, ArchB}
NoPlatforms == [set |-> FALSE, val |-> {}]
Platforms(ps) == [set |-> TRUE, val |-> ps]
\* the valid_platforms argument: None, or an allow-list of platform names
NoValidPlatforms == [set |-> FALSE, val |-> {}]
ValidPlatforms(ps) == [set |-> TRUE, val |-> ps]
AnyName == Name("any")
PlatformArgs ==
    { NoPlatforms, Platforms({}), Platforms({PlatX}), Platforms({AnyName}),
      Platforms({PlatX, AnyName}) }

-----------------------------------------------------------------------------
(* Actions                                                                 *)

\* processor.process(grammar=g) on the next grammar of the caller
Process ==
    /\ construction.err = NoError
    /\ todo # <<>>
    /\ calls < MaxCalls
    /\ \E r \in {process(GrammarAsList(Head(todo)), <<>>, World(variant), Context)} :
           /\ variant' = r.w.variant
           /\ result' = Outcome(r, Head(todo), variant)
    /\ todo' = Tail(todo)
    /\ calls' = calls + 1
    /\ UNCHANGED <<construction, arch, target_arch, platforms, transformer, stmt, sresult,
                   scalls>>

\* a statement object is constructed directly, as OnStatement(...),
\* ToStatement(...), ForStatement(...), TryStatement(...) or
\* CompoundStatement(...), with no call stack
Construct(kind, text, body) ==
    /\ construction.err = NoError
    /\ todo = <<>> /\ calls = 0
    /\ stmt = <<>> /\ sresult.op = "none"
    /\ \E n \in {NewStatement(kind, text, body, <<>>, World(variant))} :
           /\ stmt' = n.statement
           /\ sresult' = [sresult EXCEPT !.err = n.w.err, !.op = "new",
                                         !.kind = kind, !.text = text,
                                         !.nid = n.w.nid]
    /\ UNCHANGED <<construction, arch, target_arch, platforms, transformer, variant, todo,
                   calls, result, scalls>>

\* statement.add_else(else_body)
AddElse(else_body) ==
    /\ stmt # <<>> /\ scalls = 0
    /\ Len(stmt[1].else_bodies) < MaxElse
    /\ LET r == add_else(stmt[1], else_body)
       IN  /\ stmt' = <<r.S>>
           /\ sresult' = [sresult EXCEPT
                            !.err = IF r.ok THEN NoError ELSE "else_for",
                            !.op = "add_else"]
    /\ UNCHANGED <<construction, arch, target_arch, platforms, transformer, variant, todo,
                   calls, result, scalls>>

\* statement.process()
ProcessStatement ==
    /\ stmt # <<>>
    /\ scalls < MaxStmtCalls
    /\ \E r \in {StatementProcess(stmt[1], <<>>,
                                   [World(variant) EXCEPT !.nid = sresult.nid],
                                   Context)} :
           /\ stmt' = <<r.S>>
           /\ variant' = r.w.variant
           /\ sresult' = [err |-> r.w.err, op |-> "process",
                          kind |-> sresult.kind, text |-> sresult.text,
                          outs |-> Append(sresult.outs,
                                          [err |-> r.w.err, out |-> r.out,
                                           log |-> r.w.log,
                                           before |-> variant,
                                           vtrace |-> r.w.vtrace]),
                          nid |-> r.w.nid]
    /\ scalls' = scalls + 1
    /\ UNCHANGED <<construction, arch, target_arch, platforms, transformer, todo, calls,
                   result>>


-----------------------------------------------------------------------------
(* Inputs of the statement API                                             *)

\* the statements a caller constructs: the class and the clause text
StmtInputs ==
    { [kind |-> "on", text |-> Kw("on", ArchA)],
      [kind |-> "on", text |-> Kw("on", List2(ArchA, ArchB))],
      [kind |-> "to", text |-> Kw("to", ArchA)],
      [kind |-> "to", text |-> Kw("to", List2(ArchB, ArchA))],
      [kind |-> "compound", text |-> OnTo(ArchA, ArchB)],
      [kind |-> "for", text |-> Kw("for", PlatX)],
      [kind |-> "for", text |-> Kw("for", PlatY)],
      [kind |-> "for", text |-> Kw("for", AnyName)],
      [kind |-> "try", text |-> TryKey] }

\* longest text after the clause keyword, in lexemes
MaxText == 4

\* the clause texts a caller may hand to OnStatement(...) or ToStatement(...):
\* a keyword alone or followed by words, commas, newlines and other
\* whitespace
ClauseLexemes == {"a", "b", COMMA, WS, NL}
ClauseTexts ==
    { <<kw>> \o rest : kw \in {"on", "to"},
                       rest \in SeqsUpTo(ClauseLexemes, MaxText) }

\* a statement that matches in no context: it evaluates to the empty list
Never == Clause(Kw("on", ArchC), <<PrimR>>)

StmtBodies == { <<PrimP>>, <<PrimQ>>, <<Never>> }

\* what add_else is given: None, or a grammar
ElseBodies ==
    { ElseFail, ElseBody(<<>>), ElseBody(<<PrimR>>), ElseBody(<<PrimQ>>),
      ElseBody(<<Never>>) }

-----------------------------------------------------------------------------
(* Inputs of process()                                                     *)

\* sections built from clause keys, bodies and other sections
Clauses(keys, bodies) == { Clause(k, b) : k \in keys, b \in bodies }

DialectKeys == { Kw("for", PlatX), Kw("on", ArchA), TryKey, ElseKey }
DialectBodies ==
    { <<PrimP>>, <<Clause(Kw("for", PlatX), <<PrimP>>)>>,
      <<Clause(Kw("on", ArchA), <<PrimP>>)>> }
DialectSections ==
    Clauses(DialectKeys, DialectBodies) \cup { ElseFailStr, PrimR }

\* sections of the on/to dialect whose order in the output can be told:
\* strings, mappings without clause keys (one of them empty), statements
\* with plain and nested bodies, else clauses
FlatKeys == { Kw("on", ArchA), Kw("to", ArchB), OnTo(ArchA, ArchB) }
FlatBodies ==
    { <<PrimP>>, <<PrimQ, Clause(Kw("to", ArchA), <<PrimP>>), PrimR>> }
FlatSections ==
    Clauses(FlatKeys, {<<PrimP>>}) \cup Clauses({Kw("on", ArchA)}, FlatBodies)
        \cup { Clause(ElseKey, <<PrimR>>),
               Clause(ElseKey, <<Clause(Kw("on", ArchA), <<PrimQ>>)>>),
               PrimP, Plain, Dict(<<>>) }

\* sibling statements with equal and with different selector sets, also
\* inside the body or the else of one another
SiblingKeys ==
    { Kw("on", ArchA), Kw("on", List2(ArchA, ArchB)), Kw("on", List2(ArchB, ArchA)),
      Kw("to", ArchA), OnTo(ArchA, ArchB), OnTo(ArchA, List2(ArchB, ArchA)),
      TryKey }
SiblingBodies == { <<PrimP>>, <<Clause(Kw("on", ArchA), <<PrimP>>)>> }
SiblingSections ==
    Clauses(SiblingKeys, {<<PrimP>>})
        \cup Clauses({Kw("on", ArchA), Kw("to", ArchA)}, SiblingBodies)
        \cup { Clause(ElseKey, <<Clause(Kw("on", ArchA), <<PrimP>>),
                                  Clause(Kw("on", ArchA), <<PrimQ>>)>>) }
ForSections ==
    Clauses({Kw("for", PlatX), Kw("for", PlatY)},
            { <<PrimP>>, <<Clause(Kw("for", PlatX), <<PrimQ>>),
                           Clause(Kw("for", PlatX), <<PrimP>>)>> })

\* primitives of every type, around and inside a statement with an else
NumN == Num(Name("5"))
PrimitiveSections ==
    { PrimP, NumN, Plain, ElseFailStr,
      Clause(Kw("on", ArchA), <<PrimP, NumN, Plain>>),
      Clause(ElseKey, <<PrimR>>) }

\* single-key mappings whose value is no list: every clause key, with a
\* string and with a mapping (itself a clause with a string value) as value
ScalarKeys ==
    { Kw("on", ArchA), Kw("to", ArchA), OnTo(ArchA, ArchA), Kw("for", PlatX),
      TryKey, ElseKey }
ScalarValues == { PrimP, ClauseScalar(Kw("to", ArchA), PrimQ) }
ScalarSections == { ClauseScalar(k, v) : k \in ScalarKeys, v \in ScalarValues }

\* bodies whose evaluation raises: an unsatisfied statement before else fail,
\* an else fail that follows no statement, two equal sibling statements, a
\* clause without selectors, a statement of the other dialect
RaisingBodies ==
    { <<Never, ElseFailStr>>,
      <<ElseFailStr>>,
      <<Clause(Kw("on", ArchA), <<PrimP>>), Clause(Kw("on", ArchA), <<PrimP>>)>>,
      <<Clause(Kw("on", <<COMMA>>), <<PrimP>>)>>,
      <<Clause(Kw("for", PlatX), <<PrimP>>)>> }
\* one statement, try or on, whose body raises, is valid, is invalid or is empty
ChainHeads ==
    Clauses({TryKey, Kw("on", ArchA)},
            RaisingBodies \cup { <<PrimP>>, <<PrimQ>>, <<>> })
\* the else clauses that follow it
ChainElses ==
    Clauses({ElseKey}, RaisingBodies \cup { <<PrimR>>, <<>> }) \cup {ElseFailStr}
\* sections that are mappings with two keys, clause keys or plain keys, next
\* to a statement and a primitive
PairKeys == { Kw("on", ArchA), Kw("to", ArchA), Name("k") }
PairSections ==
    { Dict(<<Entry(ks[1], TRUE, <<PrimQ>>), Entry(ks[2], TRUE, <<PrimR>>)>>) :
        ks \in { p \in PairKeys \X PairKeys : p[1] # p[2] } }
    \cup { Clause(Kw("on", ArchB), <<PrimP>>), PrimP }

\* one grammar: a statement followed by up to n else clauses
Chains(heads, elses, n) ==
    { << GrammarList(<<h>> \o e) >> : h \in heads, e \in SeqsUpTo(elses, n) }

\* the entries of a top-level mapping: a key that is no clause, clauses, an
\* else
MappingItems ==
    { Entry(Name("k"), FALSE, <<PrimR>>),
      Entry(Kw("on", ArchA), TRUE, <<PrimP>>),
      Entry(Kw("to", ArchA), TRUE, <<PrimQ>>),
      Entry(TryKey, TRUE, <<PrimP>>),
      Entry(ElseKey, TRUE, <<PrimR>>) }

\* the top-level mappings of up to len entries, in key order: no key twice
Mappings(items, len) ==
    { GrammarDict(m) : m \in
        { m \in SeqsUpTo(items, len) :
            \A i, j \in 1..Len(m) : i # j => m[i].key # m[j].key } }

\* the grammars a caller hands to one processor, one per call: up to n lists
\* of up to len sections
Scripts(sections, len, n) ==
    { [i \in 1..Len(sc) |-> GrammarList(sc[i])] :
        sc \in SeqsUpTo(SeqsUpTo(sections, len), n) \ {<<>>} }

-----------------------------------------------------------------------------
(* Specification                                                           *)

\* BaseProcessor.__init__(arch, target_arch, platforms, valid_platforms) of a
\* grammar processor was called, with or without a transformer, and returned
\* or raised PlatformNameError; valid_platforms is stored and nothing else;
\* the grammars are those the caller is going to process
InitConfigured(archs, targets, pargs, valids, transformers, scripts) ==
    /\ arch \in archs
    /\ target_arch \in targets
    /\ transformer \in transformers
    /\ \E pa \in pargs, vp \in valids :
          /\ construction =
                [platforms |-> pa,
                 valid_platforms |-> vp,
                 err |-> IF BaseProcessorInit(pa).ok THEN NoError
                         ELSE "platform_name"]
          /\ platforms = BaseProcessorInit(pa).platforms
    /\ variant = UNKNOWN
    /\ todo \in scripts
    /\ calls = 0
    /\ result = NoOutcome
    /\ stmt = <<>>
    /\ sresult = NoSOutcome
    /\ scalls = 0

\* GrammarProcessor(arch, target_arch, platforms, transformer): its __init__
\* hands no valid_platforms to BaseProcessor.__init__
InitProcessor(archs, targets, pargs, transformers, scripts) ==
    InitConfigured(archs, targets, pargs, {NoValidPlatforms}, transformers,
                   scripts)

\* a processor constructed with the transformer that records its calls
InitWith(archs, targets, pargs, scripts) ==
    InitProcessor(archs, targets, pargs, {TRUE}, scripts)

AllPlatformArgs == { NoPlatforms, Platforms({PlatX}) }

\* the caller drives statement objects directly, on a processor built from
\* any platforms argument or holding an allow-list, or processes grammars:
\* up to MaxCalls one-section grammars of either dialect on one processor,
\* one longer grammar of either dialect, one grammar of the on/to dialect of
\* up to MaxLen sections, one list of sibling statements, or one list of
\* primitives of every type on a processor with or without a transformer
Init ==
    \/ InitWith(Archs, Archs, {NoPlatforms}, {<<>>})
    \/ InitWith({ArchA}, {ArchA}, PlatformArgs, {<<>>})
    \/ InitConfigured({ArchA}, {ArchA}, {Platforms({PlatX})},
                      {ValidPlatforms({PlatX})}, {TRUE}, {<<>>})
    \/ InitWith(Archs, {ArchA}, AllPlatformArgs,
                Scripts(DialectSections, 1, MaxCalls))
    \/ InitWith(Archs, {ArchA}, AllPlatformArgs,
                Scripts(DialectSections, MaxLen - 1, 1))
    \/ InitWith(Archs, Archs, {NoPlatforms}, Scripts(FlatSections, MaxLen, 1))
    \/ InitWith(Archs, {ArchA}, {NoPlatforms},
                Scripts(SiblingSections, MaxLen, 1))
    \/ InitWith({ArchA}, {ArchA}, AllPlatformArgs,
                Scripts(ForSections, MaxLen, 1))
    \/ InitProcessor(Archs, {ArchA}, {NoPlatforms}, BOOLEAN,
                     Scripts(PrimitiveSections, MaxLen, 1))
    \/ InitWith(Archs, {ArchA}, {NoPlatforms},
                { <<g>> : g \in Mappings(MappingItems, MaxLen) })
    \/ InitWith(Archs, {ArchA}, {Platforms({PlatX})},
                Scripts(ScalarSections, MaxLen - 1, 1))
    \/ InitWith(Archs, {ArchA}, {Platforms({PlatX})},
                Chains(ChainHeads, ChainElses, MaxLen - 1))
    \/ InitWith(Archs, {ArchA}, {NoPlatforms},
                Scripts(PairSections, MaxLen - 1, 1))

\* the caller constructs one On or To statement from a clause text
InitClause == InitWith({ArchA}, {ArchA}, {NoPlatforms}, {<<>>})

NextClause ==
    \E kind \in {"on", "to"}, text \in ClauseTexts :
        Construct(kind, text, <<PrimP>>)

SpecClause == InitClause /\ [][NextClause]_vars

Next ==
    \/ Process
    \/ \E i \in StmtInputs, b \in StmtBodies : Construct(i.kind, i.text, b)
    \/ \E e \in ElseBodies : AddElse(e)
    \/ ProcessStatement

Spec == Init /\ [][Next]_vars


-----------------------------------------------------------------------------
(* Properties of the statement API                                         *)

\* a statement object exists and process() was called on it n times or more
Held == stmt[1]
Processed(n) == stmt # <<>> /\ scalls >= n

\* the indices of the events e of statement id in a log
EventsOf(log, e, id) == { i \in 1..Len(log) : log[i].e = e /\ log[i].id = id }

\* the n-th process() call on the statement evaluated its body
BodyEvaluated(n) == EventsOf(sresult.outs[n].log, "body", Held.id) # {}

\* the else bodies the n-th process() call on the statement evaluated
ElsesEvaluated(n) ==
    { sresult.outs[n].log[i].n : i \in EventsOf(sresult.outs[n].log, "else", Held.id) }

\* C9: OnStatement.check() (ToStatement.check()) is true iff the selector set
\* has exactly one element and it equals the processor's arch (target_arch):
\* the first process() call evaluates the body exactly in that case, so a
\* clause with two selectors never matches, even one naming the context's
\* architecture.
C9_OnToCheckSingleSelector ==
    (Processed(1) /\ Held.kind \in {"on", "to"}) =>
        (BodyEvaluated(1) <=>
            Held.selectors = {IF Held.kind = "on" THEN arch ELSE target_arch})

\* an `on a,b` statement was processed on architecture a
C9_Witness ==
    /\ Processed(1) /\ Held.kind = "on"
    /\ Cardinality(Held.selectors) = 2 /\ arch \in Held.selectors
    /\ ~BodyEvaluated(1)

\* C10: ForStatement.check() is true iff the processor has a platform set and
\* the statement's selector is a member of it; without a platform set a `for`
\* statement never matches and process() returns the empty list.
C10_ForCheckPlatforms ==
    (Processed(1) /\ Held.kind = "for") =>
        /\ BodyEvaluated(1) <=>
              (platforms.set /\ \A x \in Held.selectors : x \in platforms.val)
        /\ ~platforms.set =>
              (sresult.outs[1].err = NoError /\ sresult.outs[1].out = <<>>)

\* a `for` statement was processed by a processor without platforms
C10_Witness ==
    /\ Processed(1) /\ Held.kind = "for" /\ ~platforms.set
    /\ sresult.outs[1].out = <<>>

\* the sections of a list of primitives, without what the transformer added
Sections(out) == [i \in 1..Len(out) |-> out[i].sec]

\* what a grammar evaluates to in the processor's context, on its own
Value(grammar) == process(grammar, <<>>, World(TO_VARIANT), Context).out

\* the else bodies of the held statement, and the `else fail` markers
Elses == Held.else_bodies
IsSentinel(i) == Elses[i].fail

\* the i-th else body evaluates to a result the statement accepts
Accepted(i) ==
    /\ ~IsSentinel(i)
    /\ Value(Elses[i].body) # <<>>
    /\ Held.kind = "try" => _validate_primitives(Value(Elses[i].body))

\* the else chain reaches position i: nothing before it is a marker or is
\* accepted
Reaches(i) == \A j \in 1..(i - 1) : ~IsSentinel(j) /\ ~Accepted(j)

\* check() of the held statement, from its selectors and the context
CheckHolds ==
    CASE Held.kind = "on" -> Held.selectors = {arch}
      [] Held.kind = "to" -> Held.selectors = {target_arch}
      [] Held.kind = "compound" ->
             Held.selectors = {arch} /\ Held.to_selectors = {target_arch}
      [] Held.kind = "for" -> platforms.set /\ Held.selectors \subseteq platforms.val
      [] OTHER -> _validate_primitives(Value(Held.body))

\* C6: when check() is false and the else bodies are tried in order, reaching
\* the `else fail` marker before an else result was accepted raises
\* UnsatisfiedStatementError and no later else body is evaluated; when check()
\* holds the else chain is not entered, and when an else result was accepted
\* it is returned, nothing after it is evaluated and no error is raised.
C6_ElseFailRaises ==
    Processed(1) =>
        /\ \A i \in 1..Len(Elses) :
              (~CheckHolds /\ IsSentinel(i) /\ Reaches(i)) =>
                  /\ sresult.outs[1].err = "unsatisfied"
                  /\ ElsesEvaluated(1) \subseteq 1..(i - 1)
        /\ CheckHolds =>
              (sresult.outs[1].err = NoError /\ ElsesEvaluated(1) = {})
        /\ \A j \in ElsesEvaluated(1) :
              Accepted(j) =>
                  /\ sresult.outs[1].err = NoError
                  /\ Sections(sresult.outs[1].out) = Sections(Value(Elses[j].body))
                  /\ ElsesEvaluated(1) \subseteq 1..j

\* an unmatched statement evaluated an else body that came to nothing, met
\* the marker next, and raised without evaluating the else after it
C6_Witness ==
    /\ Processed(1) /\ ~CheckHolds /\ Len(Elses) = 3
    /\ ~IsSentinel(1) /\ Elses[1].body # <<>> /\ IsSentinel(2) /\ ~IsSentinel(3)
    /\ ElsesEvaluated(1) = {1}
    /\ sresult.outs[1].err = "unsatisfied"

\* the events of the held statement in the n-th process() call on it
Checks(n) == EventsOf(sresult.outs[n].log, "check", Held.id)
Evaluations(n) ==
    EventsOf(sresult.outs[n].log, "body", Held.id)
        \cup EventsOf(sresult.outs[n].log, "else", Held.id)

\* C8 as the specification states it: the second process() call on a
\* statement returns the cached result of the first without invoking check()
\* and without evaluating the body or an else body.
C8_SecondCallSkipsCheck ==
    (Processed(2) /\ sresult.outs[1].err = NoError) =>
        /\ sresult.outs[2].err = NoError
        /\ sresult.outs[2].out = sresult.outs[1].out
        /\ Checks(2) = {}
        /\ Evaluations(2) = {}

\* C8, amended: when the first process() call returned, the second returns the
\* same result without evaluating the body or an else body again, but check()
\* is invoked once more; over both calls the body and each else body are
\* evaluated at most once.
C8_SecondCallCached ==
    Processed(2) =>
        /\ Evaluations(2) = {}
        /\ Cardinality(EventsOf(sresult.outs[1].log, "body", Held.id)) <= 1
        /\ \A j \in ElsesEvaluated(1) :
              Cardinality({ i \in EventsOf(sresult.outs[1].log, "else", Held.id) :
                              sresult.outs[1].log[i].n = j }) = 1
        /\ sresult.outs[1].err = NoError =>
              /\ sresult.outs[2].err = NoError
              /\ sresult.outs[2].out = sresult.outs[1].out
              /\ Cardinality(Checks(2)) = 1

\* a statement whose first call evaluated an else body was processed again
C8_Witness ==
    /\ Processed(2) /\ sresult.outs[1].err = NoError
    /\ ElsesEvaluated(1) # {} /\ sresult.outs[1].out # <<>>
    /\ sresult.outs[2].out = sresult.outs[1].out

\* the else bodies that evaluate to a result the held statement accepts
AcceptedElses == { i \in 1..Len(Elses) : Accepted(i) }
NonEmptyElses == { i \in 1..Len(Elses) : Value(Elses[i].body) # <<>> }
First(I) == CHOOSE i \in I : \A j \in I : i <= j
Last(I) == CHOOSE i \in I : \A j \in I : j <= i
NoSentinel == \A i \in 1..Len(Elses) : ~IsSentinel(i)

\* C4: an On, To or Compound statement whose check() is false returns the
\* result of the first else body, in the order added, that evaluates to a
\* non-empty list, and evaluates no later else body; it returns the empty list
\* without error when it has no else body or all evaluate to the empty list.
C4_ElseChainFirstNonEmpty ==
    (/\ Processed(1) /\ Held.kind \in {"on", "to", "compound"}
     /\ ~CheckHolds /\ NoSentinel) =>
        /\ sresult.outs[1].err = NoError
        /\ IF AcceptedElses = {} THEN sresult.outs[1].out = <<>>
           ELSE /\ Sections(sresult.outs[1].out)
                      = Sections(Value(Elses[First(AcceptedElses)].body))
                /\ ElsesEvaluated(1) = 1..First(AcceptedElses)

\* C5: TryStatement.process() returns the body result iff all of its
\* primitives pass the checker; otherwise the first else result that is
\* non-empty and valid, else the last non-empty else result, else the empty
\* list.
C5_TryFallsBackToElse ==
    (Processed(1) /\ Held.kind = "try" /\ NoSentinel) =>
        /\ sresult.outs[1].err = NoError
        /\ Sections(sresult.outs[1].out) =
              IF CheckHolds THEN Sections(Value(Held.body))
              ELSE IF AcceptedElses # {}
              THEN Sections(Value(Elses[First(AcceptedElses)].body))
              ELSE IF NonEmptyElses # {}
              THEN Sections(Value(Elses[Last(NonEmptyElses)].body))
              ELSE <<>>

-----------------------------------------------------------------------------
(* Properties of the dialect of a processor                                *)

\* the variant after the first n _set_variant calls of a trace that began
\* with the processor's variant at `before`
VariantAfter(before, vtrace, n) == IF n = 0 THEN before ELSE vtrace[n].got

\* every _set_variant call of the trace either found the variant UNKNOWN and
\* set it to the dialect observed, or found it equal to that dialect and left
\* it, or found the other dialect, left it and raised the conflict
TraceLatches(before, vtrace) ==
    \A n \in 1..Len(vtrace) :
        LET was == VariantAfter(before, vtrace, n - 1)
        IN  /\ vtrace[n].req \in {FOR_VARIANT, TO_VARIANT}
            /\ vtrace[n].got = IF was = UNKNOWN THEN vtrace[n].req ELSE was
            /\ (vtrace[n].err = "conflict") <=> (was \notin {UNKNOWN, vtrace[n].req})

\* C3: over any sequence of process() calls on one processor, nested calls
\* included, succeeding or failing, the variant only moves from UNKNOWN to
\* FOR_VARIANT or TO_VARIANT; once it is not UNKNOWN it never changes, and
\* observing the other dialect raises the conflict instead of changing it.
C3_VariantLatches ==
    [][ /\ variant # UNKNOWN => variant' = variant
        /\ variant' \in {variant, FOR_VARIANT, TO_VARIANT}
        /\ calls' # calls =>
              /\ TraceLatches(variant, result'.vtrace)
              /\ variant' = VariantAfter(variant, result'.vtrace,
                                         Len(result'.vtrace))
        /\ scalls' # scalls =>
              /\ TraceLatches(variant, sresult'.outs[scalls'].vtrace)
              /\ variant' = VariantAfter(variant, sresult'.outs[scalls'].vtrace,
                                         Len(sresult'.outs[scalls'].vtrace))
      ]_vars

\* a processor that had observed the `for` dialect in its first call was
\* handed a clause of the other dialect in its second: the call raised and
\* the variant stayed
C3_Witness ==
    /\ calls = 2 /\ result.before = FOR_VARIANT
    /\ result.err = "conflict" /\ variant = FOR_VARIANT

\* the dialects of the clauses written in a grammar, at any depth
RECURSIVE DialectsOf(_)
DialectsOfEntry(entry) ==
    CASE KeyClass(entry.key) = "other" -> {}
      [] KeyClass(entry.key) = "for" ->
             {FOR_VARIANT} \cup DialectsOf(WrapValue(entry))
      [] OTHER -> {TO_VARIANT} \cup DialectsOf(WrapValue(entry))
DialectsOfSection(section) ==
    CASE section.t = "str" ->
             IF _ELSE_FAIL_PATTERN(section.s) THEN {TO_VARIANT} ELSE {}
      [] section.t = "dict" ->
             UNION { DialectsOfEntry(section.items[i]) :
                        i \in 1..Len(section.items) }
      [] OTHER -> {}
DialectsOf(grammar) ==
    UNION { DialectsOfSection(grammar[i]) : i \in 1..Len(grammar) }

\* the dialects of the clauses written in the sections of the list itself
TopDialectsOf(grammar) ==
    UNION { IF grammar[i].t = "dict"
            THEN { IF KeyClass(grammar[i].items[k].key) = "for"
                   THEN FOR_VARIANT ELSE TO_VARIANT :
                   k \in { k \in 1..Len(grammar[i].items) :
                             KeyClass(grammar[i].items[k].key) # "other" } }
            ELSE DialectsOfSection(grammar[i]) :
            i \in 1..Len(grammar) }

Mixed(D) == D = {FOR_VARIANT, TO_VARIANT}
FirstCall == calls = 1
Processed1 == GrammarAsList(result.grammar)

\* the dialects the _set_variant calls of the last process() call observed
Observed == { result.vtrace[n].req : n \in 1..Len(result.vtrace) }

\* C2 as the specification states it: a tree that mixes `for` with clauses of
\* the on/to dialect, in either order and at any depth, makes process() raise
\* the dialect conflict in every context; a tree of one dialect never raises
\* it on a fresh processor.
C2_MixedTreeRaises ==
    FirstCall =>
        (Mixed(DialectsOf(Processed1)) <=> result.err = "conflict")

\* C2, amended: process() raises the dialect conflict exactly when a clause
\* of the other dialect is observed, which happens only for sections that
\* are scanned: a clause inside a body or else that the context does not
\* select, or behind an earlier error, is not observed.  On a fresh processor
\* a tree of one dialect never raises the conflict, and a list whose own
\* sections mix the dialects never returns normally.
C2_ObservedMixRaises ==
    calls >= 1 =>
        /\ (result.err = "conflict")
              <=> Mixed(({result.before} \cup Observed) \ {UNKNOWN})
        /\ Observed \subseteq DialectsOf(Processed1)
        /\ FirstCall =>
              /\ ~Mixed(DialectsOf(Processed1)) => result.err # "conflict"
              /\ Mixed(TopDialectsOf(Processed1)) => result.err # NoError

\* a `for` clause inside the body of an `on` clause that does not match was
\* never observed: the call returned the empty list
C2_Witness ==
    /\ FirstCall /\ Mixed(DialectsOf(Processed1))
    /\ result.err = NoError /\ result.out = <<>> /\ variant = TO_VARIANT

-----------------------------------------------------------------------------
(* Properties of the output of process()                                   *)

\* a section that is a mapping with the one key of a clause of these classes
IsClause(section, classes) ==
    /\ section.t = "dict" /\ Len(section.items) = 1
    /\ KeyClass(section.items[1].key) \in classes
ClauseBody(section) == WrapValue(section.items[1])

\* a mapping none of whose keys is a clause key
IsPlainMapping(section) ==
    /\ section.t = "dict"
    /\ \A k \in 1..Len(section.items) : KeyClass(section.items[k].key) = "other"

\* a clause of the on/to dialect that matches the context
Matches(section) ==
    LET key == section.items[1].key
    IN  CASE KeyClass(key) = "on" ->
                 _extract_on_clause_selectors(key).selectors = {arch}
          [] KeyClass(key) = "to" ->
                 _extract_to_clause_selectors(key).selectors = {target_arch}
          [] OTHER ->
                 /\ _extract_on_clause_selectors(OnGroup(key)).selectors = {arch}
                 /\ _extract_to_clause_selectors(ToGroup(key)).selectors
                        = {target_arch}

\* a grammar list of string primitives, mappings without clause keys and
\* on/to/compound statements, each followed by any number of else clauses
RECURSIVE IsFlat(_)
IsFlat(grammar) ==
    \A i \in 1..Len(grammar) :
        \/ grammar[i].t = "str" /\ ~_ELSE_FAIL_PATTERN(grammar[i].s)
        \/ IsPlainMapping(grammar[i])
        \/ /\ IsClause(grammar[i], {"on", "to", "compound"})
           /\ IsFlat(ClauseBody(grammar[i]))
        \/ /\ IsClause(grammar[i], {"else"})
           /\ i > 1
           /\ IsClause(grammar[i - 1], {"on", "to", "compound", "else"})
           /\ IsFlat(ClauseBody(grammar[i]))

\* the number of else clauses from position i on
RECURSIVE CountElse(_, _)
CountElse(grammar, i) ==
    IF i <= Len(grammar) /\ IsClause(grammar[i], {"else"})
    THEN 1 + CountElse(grammar, i + 1)
    ELSE 0

\* what a flat grammar stands for in the context: each primitive section in
\* its place, and in the place of each statement the body when it matches,
\* and the first of its elses that stands for something when it does not
RECURSIVE ExpectedFrom(_, _)
Expected(grammar) == ExpectedFrom(grammar, 1)
Selected(grammar, i, n) ==
    IF Matches(grammar[i]) THEN Expected(ClauseBody(grammar[i]))
    ELSE LET I == { j \in (i + 1)..(i + n) :
                        Expected(ClauseBody(grammar[j])) # <<>> }
         IN  IF I = {} THEN <<>>
             ELSE Expected(ClauseBody(grammar[First(I)]))
ExpectedFrom(grammar, i) ==
    IF i > Len(grammar) THEN <<>>
    ELSE IF IsClause(grammar[i], {"on", "to", "compound"})
    THEN Selected(grammar, i, CountElse(grammar, i + 1))
            \o ExpectedFrom(grammar, i + 1 + CountElse(grammar, i + 1))
    ELSE <<grammar[i]>> \o ExpectedFrom(grammar, i + 1)

\* C1: for a grammar list of string primitives, mappings without clause keys
\* and on/to/compound statements with optional elses, process() returns the
\* concatenation, in section order, of each primitive section and of each
\* statement's selected result at the place of the statement: nothing is
\* reordered, duplicated or lost.
C1_FlatOrderedOutput ==
    (calls >= 1 /\ IsFlat(Processed1) /\ result.err = NoError) =>
        Sections(result.out) = Expected(Processed1)

-----------------------------------------------------------------------------
(* Properties of sibling statements                                        *)

StatementClasses == {"on", "to", "compound", "for", "try"}

\* the selector sets written in the key of a statement clause
SelectorsOf(section) ==
    LET key == section.items[1].key
    IN  CASE KeyClass(key) = "on" ->
                 <<_extract_on_clause_selectors(key).selectors>>
          [] KeyClass(key) = "to" ->
                 <<_extract_to_clause_selectors(key).selectors>>
          [] KeyClass(key) = "for" ->
                 <<_extract_for_clause_selectors(key).selectors>>
          [] KeyClass(key) = "compound" ->
                 <<_extract_on_clause_selectors(OnGroup(key)).selectors,
                   _extract_to_clause_selectors(ToGroup(key)).selectors>>
          [] OTHER -> <<>>

\* two statement clauses of the same kind, On, To, For or Compound, with
\* equal selector sets
SameStatement(s, t) ==
    /\ KeyClass(s.items[1].key) = KeyClass(t.items[1].key)
    /\ KeyClass(s.items[1].key) # "try"
    /\ SelectorsOf(s) = SelectorsOf(t)

\* the statements of one list of sibling sections
StatementsOf(grammar) ==
    { i \in 1..Len(grammar) : IsClause(grammar[i], StatementClasses) }
SiblingDuplicate(grammar) ==
    \E i, j \in StatementsOf(grammar) :
        i < j /\ SameStatement(grammar[i], grammar[j])

\* a grammar whose mappings have one key each, a clause key or not
RECURSIVE IsStatementList(_)
IsStatementList(grammar) ==
    \A i \in 1..Len(grammar) :
        \/ grammar[i].t = "str"
        \/ /\ grammar[i].t = "dict" /\ Len(grammar[i].items) = 1
           /\ KeyClass(grammar[i].items[1].key) # "other" =>
                 IsStatementList(ClauseBody(grammar[i]))

\* check() of a statement clause in the context; a try evaluates its body
Selects(section) ==
    CASE KeyClass(section.items[1].key) = "for" ->
             platforms.set /\ SelectorsOf(section)[1] \subseteq platforms.val
      [] KeyClass(section.items[1].key) = "try" -> TRUE
      [] OTHER -> Matches(section)

\* the else clause at j ends the else chain of the statement at i
EndsChain(grammar, i, j) ==
    /\ Value(ClauseBody(grammar[j])) # <<>>
    /\ IsClause(grammar[i], {"try"}) =>
          _validate_primitives(Value(ClauseBody(grammar[j])))

\* some list of siblings that the evaluation of the grammar scans, the
\* grammar itself or a body or else that the context selects, at any depth,
\* holds two equal statements
RECURSIVE DuplicateScanned(_)
DuplicateInElses(grammar, i, n) ==
    \E j \in (i + 1)..(i + n) :
        /\ DuplicateScanned(ClauseBody(grammar[j]))
        /\ \A k \in (i + 1)..(j - 1) : ~EndsChain(grammar, i, k)
DuplicateInStatement(grammar, i) ==
    \/ Selects(grammar[i]) /\ DuplicateScanned(ClauseBody(grammar[i]))
    \/ /\ \/ ~Selects(grammar[i])
          \/ /\ IsClause(grammar[i], {"try"})
             /\ ~_validate_primitives(Value(ClauseBody(grammar[i])))
       /\ DuplicateInElses(grammar, i, CountElse(grammar, i + 1))
DuplicateScanned(grammar) ==
    \/ SiblingDuplicate(grammar)
    \/ \E i \in StatementsOf(grammar) : DuplicateInStatement(grammar, i)

\* C7: within one scan of sibling sections process() raises the duplicate
\* error iff two statements finalized in it are of the same kind, On, To,
\* For or Compound, and have equal selector sets, in whatever order the
\* selectors are written and whether or not either matches; statements with
\* different selector sets, of different kinds or at different nesting levels
\* never raise it.  A call raises the error of the scans it makes: of the
\* list it is given and of the bodies and elses it evaluates.
C7_DuplicateSiblings ==
    (calls >= 1 /\ IsStatementList(Processed1)) =>
      \A scanned \in {DuplicateScanned(Processed1)} :
        /\ result.err = "duplicate" => scanned
        /\ scanned => result.err # NoError
        /\ (FirstCall /\ DialectsOf(Processed1) = {TO_VARIANT} /\ scanned)
               => result.err \in {"duplicate", "else_orphan", "unsatisfied",
                                  "on_syntax"}

\* `on a,b` and `on b,a` were written side by side, neither matching the
\* context, and the call raised the duplicate error
C7_Witness ==
    /\ FirstCall /\ result.err = "duplicate"
    /\ \E i, j \in StatementsOf(Processed1) :
          /\ i < j /\ SameStatement(Processed1[i], Processed1[j])
          /\ Processed1[i].items[1].key # Processed1[j].items[1].key
          /\ ~Selects(Processed1[i])

-----------------------------------------------------------------------------
(* Properties of compound statements                                       *)

\* C11: CompoundStatement.check() is true iff the check() of its on part and
\* of its to part are both true: the body is evaluated exactly then, and the
\* else chain of the compound is entered exactly when either part fails.
C11_CompoundIsConjunction ==
    (Processed(1) /\ Held.kind = "compound") =>
        /\ BodyEvaluated(1) <=>
              (OnCheck(Held.selectors, arch)
                  /\ ToCheck(Held.to_selectors, target_arch))
        /\ BodyEvaluated(1) => ElsesEvaluated(1) = {}
        /\ (~BodyEvaluated(1) /\ Len(Elses) > 0) =>
              IF NotElseBody(Elses[1])
              THEN sresult.outs[1].err = "unsatisfied"
              ELSE 1 \in ElsesEvaluated(1)

\* the on part of a compound matched, the to part did not, and the first
\* else was evaluated
C11_Witness ==
    /\ Processed(1) /\ Held.kind = "compound"
    /\ OnCheck(Held.selectors, arch)
    /\ ~ToCheck(Held.to_selectors, target_arch)
    /\ 1 \in ElsesEvaluated(1) /\ sresult.outs[1].out # <<>>

-----------------------------------------------------------------------------
(* Properties of the transformer hook                                      *)

\* a grammar with an empty mapping in a list that is scanned as sections
RECURSIVE HasEmptyMapping(_)
HasEmptyMapping(grammar) ==
    \E i \in 1..Len(grammar) :
        /\ grammar[i].t = "dict"
        /\ \/ grammar[i].items = <<>>
           \/ /\ Len(grammar[i].items) = 1
              /\ KeyClass(grammar[i].items[1].key) # "other"
              /\ HasEmptyMapping(ClauseBody(grammar[i]))

\* the string primitives a flat grammar stands for, each with the kinds of
\* the statements whose body encloses it, oldest first
RECURSIVE EnclosedFrom(_, _, _)
Enclosed(grammar, stack) == EnclosedFrom(grammar, 1, stack)
EnclosedSelected(grammar, i, n, stack) ==
    IF Matches(grammar[i])
    THEN Enclosed(ClauseBody(grammar[i]),
                  Append(stack, KeyClass(grammar[i].items[1].key)))
    ELSE LET I == { j \in (i + 1)..(i + n) :
                        Expected(ClauseBody(grammar[j])) # <<>> }
         IN  IF I = {} THEN <<>>
             ELSE Enclosed(ClauseBody(grammar[First(I)]), stack)
EnclosedFrom(grammar, i, stack) ==
    IF i > Len(grammar) THEN <<>>
    ELSE IF IsClause(grammar[i], {"on", "to", "compound"})
    THEN EnclosedSelected(grammar, i, CountElse(grammar, i + 1), stack)
            \o EnclosedFrom(grammar, i + 1 + CountElse(grammar, i + 1), stack)
    ELSE IF grammar[i].t = "str"
    THEN <<[sec |-> grammar[i], kinds |-> stack]>>
            \o EnclosedFrom(grammar, i + 1, stack)
    ELSE EnclosedFrom(grammar, i + 1, stack)

\* what the transformer was handed, in the order of its calls that reached
\* the output: the string and the kinds of the statements in the call stack
IsTransformed(primitive) == primitive.tr
Handed(out) ==
    LET T == SelectSeq(out, IsTransformed)
    IN  [i \in 1..Len(T) |->
            [sec |-> T[i].sec,
             kinds |-> [k \in 1..Len(T[i].cs) |-> T[i].cs[k].kind]]]

\* C12: every string primitive is handed to the transformer with a call stack
\* equal to the list, oldest first, of exactly the statements whose body
\* encloses it: not the statement whose else it is in, and not an earlier
\* sibling statement that was already evaluated.
C12_CallStackIsAncestry ==
    (/\ calls >= 1 /\ IsFlat(Processed1) /\ ~HasEmptyMapping(Processed1)
     /\ transformer /\ result.err = NoError) =>
        Handed(result.out) = Enclosed(Processed1, <<>>)

\* a value of the grammar as written: a section, not a transformer result
IsSection(value) == DOMAIN value = {"t", "s", "items"}

\* C13: the transformer is applied exactly once to every string primitive
\* that reaches the output, at every depth, and what it returns is what is
\* appended; it is never applied to a mapping, number, boolean or list
\* primitive nor to the `else fail` marker, which is never output; a
\* processor built without a transformer outputs every primitive unchanged.
C13_TransformerOncePerString ==
    (calls >= 1 /\ result.err = NoError) =>
        \A i \in 1..Len(result.out) :
            /\ IsSection(result.out[i].sec)
            /\ ~(result.out[i].sec.t = "str"
                    /\ _ELSE_FAIL_PATTERN(result.out[i].sec.s))
            /\ transformer =>
                  (result.out[i].tr <=> result.out[i].sec.t = "str")
            /\ ~transformer =>
                  result.out[i] = Prim(result.out[i].sec, <<>>, FALSE)

\* a processor with a transformer returned a string from inside a statement
\* body, transformed, next to a number and a mapping, not transformed
C13_Witness ==
    /\ calls >= 1 /\ result.err = NoError /\ transformer
    /\ \E i, j, k \in 1..Len(result.out) :
          /\ result.out[i].tr /\ result.out[i].cs # <<>>
          /\ result.out[j].sec.t = "num" /\ ~result.out[j].tr
          /\ result.out[k].sec.t = "dict" /\ ~result.out[k].tr

-----------------------------------------------------------------------------
(* Properties of number, boolean and list sections                         *)

\* a flat grammar that may also hold number, boolean or list sections
RECURSIVE IsFlatOrNumber(_)
IsFlatOrNumber(grammar) ==
    \A i \in 1..Len(grammar) :
        \/ grammar[i].t = "num"
        \/ grammar[i].t = "str" /\ ~_ELSE_FAIL_PATTERN(grammar[i].s)
        \/ IsPlainMapping(grammar[i])
        \/ /\ IsClause(grammar[i], {"on", "to", "compound"})
           /\ IsFlatOrNumber(ClauseBody(grammar[i]))
        \/ /\ IsClause(grammar[i], {"else"})
           /\ i > 1
           /\ IsClause(grammar[i - 1], {"on", "to", "compound", "else"})
           /\ IsFlatOrNumber(ClauseBody(grammar[i]))

\* C14: a number, boolean or list section that follows an open statement
\* finalizes it first, as a string section does: the results of the statement
\* come before the value of the section in the output.
C14_NumberFinalizesStatement ==
    (/\ calls >= 1 /\ IsFlatOrNumber(Processed1)
     /\ ~HasEmptyMapping(Processed1) /\ result.err = NoError) =>
        Sections(result.out) = Expected(Processed1)

-----------------------------------------------------------------------------
(* Properties of else sections                                             *)

IsElseFail(section) == section.t = "str" /\ _ELSE_FAIL_PATTERN(section.s)
IsElse(section) == IsElseFail(section) \/ IsClause(section, {"else"})
IsString(section) == section.t = "str" /\ ~IsElseFail(section)

\* a list of strings, mappings without clause keys and one-key clauses of the
\* on/to dialect whose bodies hold no clause
SimpleList(grammar) ==
    \A i \in 1..Len(grammar) :
        \/ grammar[i].t = "str"
        \/ IsPlainMapping(grammar[i])
        \/ /\ IsClause(grammar[i], {"on", "to", "compound", "try", "else"})
           /\ \A k \in 1..Len(ClauseBody(grammar[i])) :
                 ClauseBody(grammar[i])[k].t # "dict"
                     \/ IsPlainMapping(ClauseBody(grammar[i])[k])

\* the else at position i has no open statement: it starts the list or
\* follows a string primitive or a mapping without clause keys
OrphanAt(grammar, i) ==
    /\ IsElse(grammar[i])
    /\ i = 1 \/ IsString(grammar[i - 1]) \/ IsPlainMapping(grammar[i - 1])
Orphans(grammar) == { i \in 1..Len(grammar) : OrphanAt(grammar, i) }

\* the number of else sections from position i on
RECURSIVE CountAttached(_, _)
CountAttached(grammar, i) ==
    IF i <= Len(grammar) /\ IsElse(grammar[i])
    THEN 1 + CountAttached(grammar, i + 1)
    ELSE 0

\* the statement written at position i with the n else sections after it
\* added to its else list in order
WithElses(grammar, i, n) ==
    LET key == grammar[i].items[1].key
        S   == NewStatement(KeyClass(key), key, ClauseBody(grammar[i]), <<>>,
                            World(TO_VARIANT)).statement[1]
    IN  [S EXCEPT !.else_bodies =
            [j \in 1..n |-> IF IsElseFail(grammar[i + j]) THEN ElseFail
                            ELSE ElseBody(ClauseBody(grammar[i + j]))]]

\* the sections a simple list stands for when every else section is in the
\* else list of the statement before it
RECURSIVE AttachedFrom(_, _)
AttachedFrom(grammar, i) ==
    IF i > Len(grammar) THEN <<>>
    ELSE IF IsClause(grammar[i], {"on", "to", "compound", "try"})
    THEN Sections(StatementProcess(
                      WithElses(grammar, i, CountAttached(grammar, i + 1)),
                      <<>>, World(TO_VARIANT), Context).out)
            \o AttachedFrom(grammar, i + 1 + CountAttached(grammar, i + 1))
    ELSE <<grammar[i]>> \o AttachedFrom(grammar, i + 1)

\* C15: an `else` mapping section or an `else fail` string section raises the
\* "'else' doesn't seem to correspond" error whenever no statement is open
\* in the scan: at its start, or after a string primitive or a mapping
\* without clause keys closed the statement; otherwise the else is added to
\* the else list of the open statement, in order.
C15_ElseNeedsOpenStatement ==
    (/\ FirstCall /\ SimpleList(Processed1)
     /\ DialectsOf(Processed1) \subseteq {TO_VARIANT}) =>
        /\ result.err = "else_orphan" => Orphans(Processed1) # {}
        /\ Orphans(Processed1) # {} =>
              result.err \in {"else_orphan", "duplicate", "unsatisfied"}
        /\ 1 \in Orphans(Processed1) => result.err = "else_orphan"
        /\ (Orphans(Processed1) = {} /\ result.err = NoError) =>
              Sections(result.out) = AttachedFrom(Processed1, 1)

\* the errors that are a GrammarSyntaxError or one of its subclasses
GrammarSyntaxErrors ==
    { "conflict", "else_orphan", "else_for", "duplicate", "on_syntax",
      "to_syntax", "for_syntax", "bad_section" }

\* an else section follows a `for` clause that only strings and `for`
\* clauses precede
ElseAfterFor(grammar) ==
    \E i \in 1..(Len(grammar) - 1) :
        /\ IsClause(grammar[i], {"for"}) /\ IsElse(grammar[i + 1])
        /\ \A j \in 1..(i - 1) :
              IsString(grammar[j]) \/ IsClause(grammar[j], {"for"})

\* C16: no ForStatement ever carries an else body: ForStatement.add_else
\* always raises GrammarSyntaxError and leaves the else list empty, and
\* process() rejects a grammar in which an `else` or `else fail` follows a
\* `for` statement with a GrammarSyntaxError.
C16_ForHasNoElse ==
    /\ (stmt # <<>> /\ Held.kind = "for") =>
          /\ Held.else_bodies = <<>>
          /\ sresult.op = "add_else" => sresult.err = "else_for"
    /\ (calls >= 1 /\ ElseAfterFor(Processed1)) =>
          result.err \in GrammarSyntaxErrors

\* process() was given a `for` clause followed by an else and raised
C16_Witness ==
    /\ FirstCall /\ Len(Processed1) = 2
    /\ IsClause(Processed1[1], {"for"}) /\ IsClause(Processed1[2], {"else"})
    /\ result.err = "conflict" /\ variant = FOR_VARIANT

-----------------------------------------------------------------------------
(* C17: the platforms argument of the processor                            *)

\* the constructor argument and what the constructor did with it
Given == construction.platforms
Constructed == construction.err = NoError

\* the held statement is `for any` and has been processed once
ForAnyProcessed ==
    /\ Processed(1) /\ Held.kind = "for" /\ Held.selectors = {AnyName}
    /\ sresult.outs[1].err = NoError

\* C17: constructing a processor with a platform collection that contains
\* "any" raises PlatformNameError; every other collection, the empty one
\* included, becomes the given names plus "any"; without a platforms argument
\* the platform set is None; so `for any` selects its body exactly when a
\* collection was supplied.
C17_PlatformsAlwaysHoldAny ==
    /\ ~Constructed <=> (Given.set /\ AnyName \in Given.val)
    /\ ~Constructed => construction.err = "platform_name"
    /\ Constructed /\ Given.set =>
          platforms = [set |-> TRUE, val |-> Given.val \cup {AnyName}]
    /\ Constructed /\ ~Given.set => ~platforms.set
    /\ ForAnyProcessed => (BodyEvaluated(1) <=> Given.set)

\* `for any` selected its body on a processor built from the empty collection
C17_Witness ==
    /\ ForAnyProcessed /\ BodyEvaluated(1)
    /\ Given = Platforms({})

-----------------------------------------------------------------------------
(* C18: the valid_platforms allow-list                                     *)

\* the processor holds an allow-list of platform names
AllowList == construction.valid_platforms

\* C18: on a processor configured with a valid_platforms allow-list, the
\* construction of a For statement whose selector is not in the list raises
\* UnknownPlatformNameError, so no such statement ever exists.
C18_UnknownPlatformRejected ==
    stmt # <<>> /\ Held.kind = "for" /\ AllowList.set =>
        Held.selectors \subseteq AllowList.val

-----------------------------------------------------------------------------
(* C19: the selector syntax of On and To statements                        *)

\* the text after the keyword `kw` and the whitespace that follows it
AfterKeyword(text, kw) == SubSeq(text, SkipWS(text, 2), Len(text))

\* a non-empty comma-separated list of non-empty tokens without whitespace:
\* no leading, trailing or doubled comma
IsSelectorList(g) ==
    /\ g # <<>>
    /\ \A i \in 1..Len(g) : ~IsSpace(g[i])
    /\ g[1] # COMMA /\ g[Len(g)] # COMMA
    /\ \A i \in 1..(Len(g) - 1) : ~(g[i] = COMMA /\ g[i + 1] = COMMA)

\* the clause text is the keyword, whitespace and a selector list
WellFormedClause(text, kw) ==
    /\ Len(text) >= 2 /\ text[1] = kw /\ IsSpace(text[2])
    /\ IsSelectorList(AfterKeyword(text, kw))

\* the tokens of a selector list
TokensOf(g) ==
    { SubSeq(g, i, j) : <<i, j>> \in
        { p \in (1..Len(g)) \X (1..Len(g)) :
            /\ p[1] <= p[2]
            /\ \A k \in p[1]..p[2] : g[k] # COMMA
            /\ (p[1] = 1 \/ g[p[1] - 1] = COMMA)
            /\ (p[2] = Len(g) \/ g[p[2] + 1] = COMMA) } }

\* an OnStatement or ToStatement constructor was the last call
ClauseConstructed == sresult.op = "new" /\ sresult.kind \in {"on", "to"}

\* C19: OnStatement(...) and ToStatement(...) succeed exactly when the text
\* after the keyword is a non-empty comma-separated list of non-empty tokens
\* without whitespace; the selectors are then the set of those tokens;
\* otherwise OnStatementSyntaxError / ToStatementSyntaxError is raised and no
\* statement exists.
C19_SelectorSyntax ==
    ClauseConstructed =>
        IF WellFormedClause(sresult.text, sresult.kind)
        THEN /\ stmt # <<>> /\ sresult.err = NoError
             /\ Held.kind = sresult.kind
             /\ Held.selectors =
                    TokensOf(AfterKeyword(sresult.text, sresult.kind))
        ELSE /\ stmt = <<>>
             /\ sresult.err = IF sresult.kind = "on" THEN "on_syntax"
                               ELSE "to_syntax"

-----------------------------------------------------------------------------
(* C20: a top-level mapping                                                *)

\* the list of single-key mappings built from a mapping's items, in key order
SingleKeyMappings(items) == [i \in 1..Len(items) |-> Dict(<<items[i]>>)]

\* process() was called on a top-level mapping
MappingProcessed == calls >= 1 /\ result.grammar.dict

\* C20: process() on a top-level mapping returns what process() returns on
\* the list of single-key mappings built from its items in key order, and
\* raises the same error.
C20_MappingIsListOfItems ==
    MappingProcessed =>
        \A r \in {process(SingleKeyMappings(result.grammar.v), <<>>,
                           World(result.before), Context)} :
            /\ result.err = r.w.err
            /\ result.out = r.out

\* a mapping of a plain key and a clause was processed: two primitives
C20_Witness ==
    /\ MappingProcessed /\ Len(result.grammar.v) >= 2
    /\ \E i \in 1..Len(result.grammar.v) :
          KeyClass(result.grammar.v[i].key) = "other"
    /\ result.err = NoError /\ Len(result.out) = 2

-----------------------------------------------------------------------------
(* C21: a clause value that is no list                                     *)

\* the grammar with every clause value that is no list v written as [v]
RECURSIVE AsListValues(_)
AsListValues(grammar) ==
    [i \in 1..Len(grammar) |->
        IF grammar[i].t # "dict" THEN grammar[i]
        ELSE Dict([j \in 1..Len(grammar[i].items) |->
                     IF KeyClass(grammar[i].items[j].key) = "other"
                     THEN grammar[i].items[j]
                     ELSE Entry(grammar[i].items[j].key, TRUE,
                                AsListValues(grammar[i].items[j].v))])]

\* the sections that are a clause key with a value that is no list
ScalarClausesOf(grammar) ==
    { i \in 1..Len(grammar) :
        /\ grammar[i].t = "dict" /\ Len(grammar[i].items) = 1
        /\ KeyClass(grammar[i].items[1].key) # "other"
        /\ ~grammar[i].items[1].l }

\* C21: for every clause key and every value v that is no list, processing
\* {key: v} gives what processing {key: [v]} gives, output and error alike.
C21_ScalarValueIsOneElementList ==
    calls >= 1 /\ ScalarClausesOf(Processed1) # {} =>
        \A r \in {process(AsListValues(Processed1), <<>>,
                          World(result.before), Context)} :
            /\ result.err = r.w.err
            /\ result.out = r.out

\* a clause with a string value was processed and yielded the string
C21_Witness ==
    /\ FirstCall /\ Len(Processed1) = 1 /\ ScalarClausesOf(Processed1) = {1}
    /\ result.err = NoError /\ Len(result.out) = 1
    /\ result.out[1].sec = PrimP

-----------------------------------------------------------------------------
(* C22: process() is deterministic and leaves the context alone            *)

\* the tree holds clauses of one dialect only, and that dialect is not the
\* other one of the variant the processor had before the call
DialectConsistent ==
    ~Mixed((DialectsOf(Processed1) \cup {result.before}) \ {UNKNOWN})

\* C22: a second process() call on the same processor with the same
\* dialect-consistent tree returns the output list of the first and raises
\* what the first raised, and no call changes arch, target_arch or platforms.
C22_ProcessIsDeterministic ==
    [][ /\ arch' = arch /\ target_arch' = target_arch
        /\ platforms' = platforms
        /\ (/\ calls >= 1 /\ calls' = calls + 1
            /\ result'.grammar = result.grammar
            /\ DialectConsistent) =>
              /\ result'.err = result.err
              /\ result'.out = result.out
      ]_vars

\* the same tree was processed again, on a processor whose variant the first
\* call had set, and yielded primitives
C22_Witness ==
    /\ calls >= 2 /\ result.again /\ result.before # UNKNOWN
    /\ DialectConsistent
    /\ result.err = NoError /\ result.out # <<>>

-----------------------------------------------------------------------------
(* C23: the call stack handed to an else body                              *)

\* the first process() call on the held statement returned what its else
\* bodies evaluated to
ElseReturned ==
    /\ Processed(1) /\ sresult.outs[1].err = NoError
    /\ ElsesEvaluated(1) # {}

\* the call stacks the transformer was handed for the primitives of `out`
StacksOf(out) == { out[i].cs : i \in { i \in 1..Len(out) : out[i].tr } }

\* C23: a statement that recurses into an else body passes the call stack it
\* was created with, which does not hold the statement itself, whether or not
\* its body was evaluated before.
C23_ElseStackWithoutSelf ==
    ElseReturned =>
        \A cs \in StacksOf(sresult.outs[1].out) :
            \A k \in 1..Len(cs) : cs[k].id # Held.id

-----------------------------------------------------------------------------
(* C24: else and the variant                                               *)

\* the _set_variant calls of the last process() call that handled an `else`
\* key or an `else fail` marker of the list itself, where the list begins
\* with elses, or with one clause followed by elses: the n-th section is then
\* the n-th call (the statement of the clause is evaluated after them)
LeadingElses(grammar, from) ==
    { n \in from..Len(grammar) : \A j \in from..n : IsElse(grammar[j]) }
ElseObservations ==
    IF calls = 0 \/ Processed1 = <<>> THEN {}
    ELSE IF IsElse(Processed1[1])
    THEN LeadingElses(Processed1, 1) \cap DOMAIN result.vtrace
    ELSE IF IsClause(Processed1[1], {"on", "to", "compound", "for", "try"})
    THEN LeadingElses(Processed1, 2) \cap DOMAIN result.vtrace
    ELSE {}

\* the variant before and after the n-th _set_variant call of the last call
VariantBefore(n) == VariantAfter(result.before, result.vtrace, n - 1)
VariantBehind(n) == result.vtrace[n].got

\* C24 as the specification states it: handling an `else` key or an
\* `else fail` marker never changes the processor's variant, not even when it
\* fails because no statement is open.
C24_ElseKeepsVariant ==
    \A n \in ElseObservations : VariantBehind(n) = VariantBefore(n)

\* C24, amended: handling an `else` key or an `else fail` marker never changes
\* a variant that is set: with TO_VARIANT it leaves it, with FOR_VARIANT it
\* raises the dialect conflict and leaves it.  With the variant still UNKNOWN
\* (no clause was seen yet, so no statement is open) it sets TO_VARIANT and
\* then fails with the else error; the processor keeps TO_VARIANT.
C24_ElseSetsUnknownVariant ==
    \A n \in ElseObservations :
        /\ VariantBefore(n) = TO_VARIANT =>
              VariantBehind(n) = TO_VARIANT /\ result.vtrace[n].err = NoError
        /\ VariantBefore(n) = FOR_VARIANT =>
              /\ VariantBehind(n) = FOR_VARIANT
              /\ result.vtrace[n].err = "conflict" /\ result.err = "conflict"
        /\ VariantBefore(n) = UNKNOWN =>
              /\ VariantBehind(n) = TO_VARIANT
              /\ result.err = "else_orphan" /\ variant = TO_VARIANT

\* an else at the head of a list was handled by a fresh processor
C24_Witness ==
    /\ FirstCall /\ 1 \in ElseObservations
    /\ IsElse(Processed1[1]) /\ result.before = UNKNOWN
    /\ result.err = "else_orphan" /\ variant = TO_VARIANT

-----------------------------------------------------------------------------
(* C25: errors of nested evaluations reach the caller                      *)

\* the grammar is one try or on statement followed by its else clauses
IsChain(grammar) ==
    /\ grammar # <<>>
    /\ IsClause(grammar[1], {"on", "try"})
    /\ \A i \in 2..Len(grammar) :
          grammar[i] = ElseFailStr \/ IsClause(grammar[i], {"else"})

\* the body and the else bodies of the statement that the call evaluated
NestedEvaluated ==
    (IF EventsOf(result.log, "body", 1) # {}
     THEN {ClauseBody(Processed1[1])} ELSE {})
    \cup { ClauseBody(Processed1[1 + result.log[i].n]) :
             i \in { j \in 1..Len(result.log) :
                       result.log[j].e = "else" /\ result.log[j].id = 1 } }

\* what evaluating a body on its own raises, in the dialect of the processor
Raises(body) == process(body, <<>>, World(variant), Context).w.err

\* C25: when a body or an else body of a statement is evaluated and raises,
\* the top-level process() call raises that error and returns no output
\* list, whatever the kind of the statement and whatever else clauses follow
C25_NestedErrorsPropagate ==
    calls >= 1 /\ IsChain(Processed1) =>
        \A body \in NestedEvaluated :
            \A e \in {Raises(body)} :
                e # NoError => result.err = e /\ result.out = <<>>

\* a try whose body raised UnsatisfiedStatementError although a valid else
\* clause follows it
C25_Witness ==
    /\ calls >= 1 /\ IsChain(Processed1) /\ Len(Processed1) >= 2
    /\ IsClause(Processed1[1], {"try"})
    /\ ClauseBody(Processed1[1]) = <<Never, ElseFailStr>>
    /\ Processed1[2] = Clause(ElseKey, <<PrimR>>)
    /\ result.err = "unsatisfied" /\ result.out = <<>>

-----------------------------------------------------------------------------
(* C26: a forced failure under repetition                                  *)

\* C26: when a process() call on a statement raised
\* UnsatisfiedStatementError, the next process() call on the same statement
\* raises it again instead of returning a list
C26_UnsatisfiedAgain ==
    [][ (sresult.op = "process" /\ sresult.err = "unsatisfied"
            /\ scalls' = scalls + 1)
        => sresult'.err = "unsatisfied" ]_vars

-----------------------------------------------------------------------------
(* C27: what raises UnsatisfiedStatementError                              *)

\* the grammar holds the `else fail` marker, at any depth
RECURSIVE HasElseFail(_)
HasElseFailIn(section) ==
    CASE section.t = "str" -> _ELSE_FAIL_PATTERN(section.s)
      [] section.t = "dict" ->
             \E i \in 1..Len(section.items) :
                 HasElseFail(WrapValue(section.items[i]))
      [] OTHER -> FALSE
HasElseFail(grammar) == \E i \in 1..Len(grammar) : HasElseFailIn(grammar[i])

\* C27: a process() call raises UnsatisfiedStatementError only for a grammar
\* that holds the `else fail` marker; an else clause with an empty list as
\* body is skipped like an else body that evaluates to the empty list
C27_OnlyElseFailRaises ==
    calls >= 1 /\ result.err = "unsatisfied" => HasElseFail(Processed1)

-----------------------------------------------------------------------------
(* C28: every opened statement is finalized                                *)

\* the clause keys of the sections of a list, in order: each opens a statement
RECURSIVE OpenedBy(_)
OpenedBy(grammar) ==
    IF grammar = <<>> THEN <<>>
    ELSE (IF grammar[1].t = "dict"
          THEN SelectSeq(grammar[1].items,
                         LAMBDA entry : KeyClass(entry.key) \in StatementClasses)
          ELSE <<>>)
         \o OpenedBy(Tail(grammar))

\* the sections are primitives and mappings whose values hold no statement
IsOneLevel(grammar) ==
    \A i \in 1..Len(grammar) :
        /\ grammar[i].t = "dict" =>
               \A k \in 1..Len(grammar[i].items) :
                   DialectsOf(WrapValue(grammar[i].items[k])) = {}
        /\ grammar[i].t = "str" => ~_ELSE_FAIL_PATTERN(grammar[i].s)

\* C28: a process() call that returns has finalized every statement that its
\* scan opened exactly once, also the statement that was open before a
\* mapping section with two clause keys
C28_OpenedIsFinalizedOnce ==
    calls >= 1 /\ result.err = NoError /\ IsOneLevel(Processed1) =>
        \A id \in 1..Len(OpenedBy(Processed1)) :
            Cardinality(EventsOf(result.log, "final", id)) = 1

-----------------------------------------------------------------------------
(* C29: unselected bodies are not evaluated                                *)

\* what evaluating a body on its own returns, in the dialect of the processor
Evaluated(body) == process(body, <<>>, World(variant), Context)

\* the check() of the statement of a chain: the selector of an on statement
\* is the host architecture, the body of a try statement is valid
HeadHolds(grammar) ==
    IF IsClause(grammar[1], {"try"})
    THEN \A r \in {Evaluated(ClauseBody(grammar[1]))} :
             r.w.err = NoError /\ _validate_primitives(r.out)
    ELSE Matches(grammar[1])

\* the else clause at position i of a chain is one that the statement
\* accepts: its body evaluates to a list that is not empty (and valid, for try)
Accepts(grammar, i) ==
    /\ IsClause(grammar[i], {"else"})
    /\ \A r \in {Evaluated(ClauseBody(grammar[i]))} :
          /\ r.w.err = NoError /\ r.out # <<>>
          /\ IsClause(grammar[1], {"try"}) => _validate_primitives(r.out)

\* the positions of a chain whose bodies are not selected: the body of an on
\* statement whose check is false, every else of a statement whose check is
\* true, every else behind one that the statement accepts
Unselected(grammar) ==
    IF HeadHolds(grammar) THEN 2..Len(grammar)
    ELSE (IF IsClause(grammar[1], {"on"}) THEN {1} ELSE {})
         \cup { j \in 2..Len(grammar) :
                  \E i \in 2..(j - 1) : Accepts(grammar, i) }

\* the chain with the body of every clause at these positions replaced by a
\* primitive
Pruned(grammar, positions) ==
    [i \in 1..Len(grammar) |->
        IF i \in positions /\ grammar[i].t = "dict"
        THEN Clause(grammar[i].items[1].key, <<PrimP>>)
        ELSE grammar[i]]

\* an on statement of the statement API whose check is false and that has no
\* else: no call on it evaluates its body, raises or asks for a dialect,
\* also when the body holds a clause
UnselectedBodyIsInert ==
    stmt # <<>> /\ Held.kind = "on" /\ ~OnCheck(Held.selectors, arch)
                /\ Held.else_bodies = <<>> =>
        \A n \in 1..Len(sresult.outs) :
            /\ ~BodyEvaluated(n)
            /\ sresult.outs[n].err = NoError /\ sresult.outs[n].out = <<>>
            /\ sresult.outs[n].vtrace = <<>>

\* C29: the body of a statement whose check is false and the else bodies of
\* a statement whose check is true or behind the accepted else are not
\* evaluated, and what they hold has no effect: the call raises, returns and
\* leaves the variant as it does for the grammar with primitives in their place
C29_UnselectedNotEvaluated ==
    /\ UnselectedBodyIsInert
    /\ calls >= 1 /\ IsChain(Processed1) =>
        \A U \in {Unselected(Processed1)} :
            /\ 1 \in U => EventsOf(result.log, "body", 1) = {}
            /\ \A i \in EventsOf(result.log, "else", 1) :
                   (1 + result.log[i].n) \notin U
            /\ \A r \in {process(Pruned(Processed1, U), <<>>,
                                 World(result.before), Context)} :
                   /\ result.err = r.w.err
                   /\ result.out = r.out
                   /\ variant = r.w.variant

\* an on statement that is not selected and whose body holds a statement of
\* the other dialect, with an accepted else followed by an else whose body
\* holds an orphan else fail: the call returns the accepted else's value
C29_Witness ==
    /\ calls >= 1 /\ IsChain(Processed1) /\ Len(Processed1) = 3
    /\ Unselected(Processed1) = {1, 3}
    /\ ClauseBody(Processed1[1]) = <<Clause(Kw("for", PlatX), <<PrimP>>)>>
    /\ ClauseBody(Processed1[3]) = <<ElseFailStr>>
    /\ result.err = NoError /\ Sections(result.out) = <<PrimR>>
    /\ variant = TO_VARIANT

\* an on statement that is not selected, with a clause in its body, was
\* processed on a processor that has seen no dialect
C29_WitnessStatement ==
    /\ Processed(1) /\ Held.kind = "on" /\ ~OnCheck(Held.selectors, arch)
    /\ Held.else_bodies = <<>> /\ Held.body = <<Never>>
    /\ variant = UNKNOWN

-----------------------------------------------------------------------------
(* C30: a try whose body evaluates to the empty list                       *)

\* the body evaluates, without an error, to the empty list
EvaluatesToNothing(body) ==
    \A r \in {Evaluated(body)} : r.w.err = NoError /\ r.out = <<>>

\* C30: a try statement whose body evaluates to the empty list holds:
\* process() returns the empty list and evaluates none of its else bodies,
\* so an else that follows adds nothing and an else fail does not raise;
\* stated for the statement API and for a try at the head of a grammar that
\* a processor of the on/to dialect reads
C30_EmptyTryHolds ==
    /\ stmt # <<>> /\ Held.kind = "try" /\ EvaluatesToNothing(Held.body) =>
          \A n \in 1..Len(sresult.outs) :
              /\ sresult.outs[n].err = NoError /\ sresult.outs[n].out = <<>>
              /\ ElsesEvaluated(n) = {}
    /\ calls >= 1 /\ IsChain(Processed1) /\ IsClause(Processed1[1], {"try"})
                  /\ variant = TO_VARIANT
                  /\ EvaluatesToNothing(ClauseBody(Processed1[1])) =>
          /\ result.err = NoError /\ result.out = <<>>
          /\ EventsOf(result.log, "body", 1) # {}
          /\ \A i \in 1..Len(result.log) :
                 ~(result.log[i].e = "else" /\ result.log[i].id = 1)

\* a try with an empty body, followed by an else with a valid body and by
\* else fail, returned the empty list
C30_Witness ==
    /\ calls >= 1 /\ IsChain(Processed1) /\ Len(Processed1) = 3
    /\ Processed1[1] = Clause(TryKey, <<>>)
    /\ Processed1[2] = Clause(ElseKey, <<PrimR>>)
    /\ Processed1[3] = ElseFailStr
    /\ result.err = NoError /\ result.out = <<>>

\* a try statement whose body is a statement that is not selected, with an
\* else fail added, was processed
C30_WitnessStatement ==
    /\ Processed(1) /\ Held.kind = "try" /\ Held.body = <<Never>>
    /\ Len(Held.else_bodies) >= 1 /\ Held.else_bodies[1].fail
    /\ sresult.outs[1].err = NoError /\ sresult.outs[1].out = <<>>

====
